---- MODULE Spec2Model ----
(***************************************************************************)
(* Refresh-rate / idle / TE controller and the pixel-off brightness quirk  *)
(* of the ct3a..ct3e DRM panel drivers (src/display/panel-*.c).            *)
(*                                                                         *)
(* A driver instance is the record ctx (struct exynos_panel / gs_panel     *)
(* with the embedded struct ct3x_panel).  dsi is the DSI side: the command *)
(* buffer filled by the *_BUF_ADD macros and the state of the panel        *)
(* silicon that the model needs.  tr records what the last handler did:    *)
(* its events in program order (command added to the buffer, buffer        *)
(* flushed, hardware-confirmed field written, warning logged, sleep), the  *)
(* set_panel_feat calls it made and its return value.                      *)
(*                                                                         *)
(* Handlers are operators from machine to machine, a machine being         *)
(* [ctx, dsi, tr]; an action applies one handler completely, every nested  *)
(* call included.                                                          *)
(***************************************************************************)
EXTENDS Integers, Sequences, FiniteSets, TLC

VARIABLES ctx, dsi, tr

vars == <<ctx, dsi, tr>>

(***************************************************************************)
(* Bounds of the model.                                                    *)
(***************************************************************************)
\* idle_delay_ms and the idle time delta range over 0..MaxDelayMs
MaxDelayMs == 1
\* brightness levels range over 0..MaxBrightness
MaxBrightness == 2
\* refresh_ctrl is not called with MaxPending commands left in the buffer
MaxPending == 1

(***************************************************************************)
(* Feature bits, revisions, modes.                                         *)
(***************************************************************************)
FEAT_EARLY_EXIT == "FEAT_EARLY_EXIT"
FEAT_OP_NS == "FEAT_OP_NS"
FEAT_FRAME_AUTO == "FEAT_FRAME_AUTO"
FEAT_FRAME_MANUAL_FI == "FEAT_FRAME_MANUAL_FI"

\* bitmap_fill(changed_feat, FEAT_MAX)
FEAT_MAX == {FEAT_EARLY_EXIT, FEAT_OP_NS, FEAT_FRAME_AUTO, FEAT_FRAME_MANUAL_FI}

\* bitmap_xor
bitmap_xor(a, b) == (a \ b) \cup (b \ a)

\* the revisions the drivers compare against, in increasing order
PanelRevOrder ==
  <<"PROTO1", "PROTO1_1", "PROTO1_2", "EVT1", "EVT1_1", "EVT1_2",
    "DVT1", "DVT1_1", "PVT", "LATEST">>

RevOrd(r) == CHOOSE i \in 1..Len(PanelRevOrder) : PanelRevOrder[i] = r

PANEL_REV_LT(r, x) == RevOrd(r) < RevOrd(x)
PANEL_REV_GE(r, x) == RevOrd(r) >= RevOrd(x)

\* the revisions explored: one on each side of every comparison the
\* modelled handlers make
PanelRevs == {"PROTO1", "EVT1_1"}

Mode(name, vrefresh, te_x, vrr, ns, idle_mode, lp) ==
  [name |-> name, vrefresh |-> vrefresh, te_x |-> te_x, vrr |-> vrr,
   ns |-> ns, idle_mode |-> idle_mode, is_lp_mode |-> lp]

\* panel-google-ct3a.c: ct3a_modes and ct3a_lp_mode
ct3a_modes(factory) ==
  (IF factory
     THEN {Mode("1:1", 1, 1, FALSE, FALSE, "UNSUPPORTED", FALSE),
           Mode("10:10", 10, 1, FALSE, FALSE, "UNSUPPORTED", FALSE),
           Mode("30:30", 30, 1, FALSE, FALSE, "UNSUPPORTED", FALSE)}
     ELSE {})
  \cup {Mode("60:60", 60, 1, FALSE, FALSE, "ON_SELF_REFRESH", FALSE),
        Mode("120:120", 120, 1, FALSE, FALSE, "ON_INACTIVITY", FALSE),
        Mode("120:240", 120, 2, TRUE, FALSE, "UNSUPPORTED", FALSE)}

ct3a_lp_mode == Mode("lp30", 30, 1, FALSE, FALSE, "UNSUPPORTED", TRUE)

\* drm_mode_vrefresh(&pmode->mode)
drm_mode_vrefresh(pmode) == pmode.vrefresh

\* exynos_drm_mode_te_freq / gs_drm_mode_te_freq: vrefresh times the
\* DRM_MODE_FLAG_TE_FREQ_X1/X2/X4 multiplier of the mode
drm_mode_te_freq(pmode) == pmode.vrefresh * pmode.te_x

is_vrr_mode(pmode) == pmode.vrr

(***************************************************************************)
(* Events of a handler and the command buffer.                             *)
(***************************************************************************)
Ev(k, t, v) == [k |-> k, t |-> t, v |-> v]

Log(m, k, t, v) == [m EXCEPT !.tr.ev = Append(@, Ev(k, t, v))]

\* EXYNOS_DCS_BUF_ADD / GS_DCS_BUF_ADD_CMD: queue, no transfer
BUF_ADD(m, t, v) ==
  [Log(m, "add", t, v) EXCEPT !.dsi.buf = Append(@, Ev("add", t, v))]

\* flush of the command buffer: everything queued reaches the bus
FLUSH(m) ==
  [Log(m, "flush", "", 0) EXCEPT !.dsi.buf = <<>>,
                                 !.tr.bus = @ \o m.dsi.buf]

\* EXYNOS_DCS_BUF_ADD_AND_FLUSH / ..._SET_AND_FLUSH
BUF_ADD_AND_FLUSH(m, t, v) == FLUSH(BUF_ADD(m, t, v))

\* EXYNOS_DCS_WRITE_SEQ / WRITE_TABLE: an immediate transfer
DCS_WRITE(m, t, v) == BUF_ADD_AND_FLUSH(m, t, v)

\* a write of a hardware-confirmed field (spanel->hw.*, ctx->hw_status.*)
HW_WRITE(m, field) == Log(m, "hw", field, Len(m.dsi.buf))

\* dev_warn
WARN(m, what, v) == Log(m, "warn", what, v)

\* usleep_range(min, ...)
SLEEP(m, us) == Log(m, "sleep", "", us)

\* step constructors
Add(t, v) == <<"add", t, v>>
Flush == <<"flush", "", 0>>
Hw(field) == <<"hw", field, 0>>
Warn(what, v) == <<"warn", what, v>>
Sleep(us) == <<"sleep", "", us>>

\* A handler body is a sequence of steps <<kind, tag, value>> in program
\* order; Run applies them all.
\* the last flush among the first i - 1 steps, 0 if there is none
LastFlush(steps, i) ==
  LET S == {j \in 1..(i - 1) : steps[j][1] = "flush"}
  IN IF S = {} THEN 0 ELSE CHOOSE j \in S : \A k \in S : k <= j

\* the commands the steps a..b queue
Queued(steps, a, b) ==
  LET adds == SelectSeq(SubSeq(steps, a, b), LAMBDA s : s[1] = "add")
  IN [i \in 1..Len(adds) |-> Ev("add", adds[i][2], adds[i][3])]

\* the number of commands pending in the buffer ahead of step i
Pending(m, steps, i) ==
  LET f == LastFlush(steps, i)
  IN (IF f = 0 THEN Len(m.dsi.buf) ELSE 0) + Len(Queued(steps, f + 1, i - 1))

Run(m, steps) ==
  LET n == Len(steps)
      f == LastFlush(steps, n + 1)
      evs == [i \in 1..n |->
                IF steps[i][1] = "hw"
                  THEN Ev("hw", steps[i][2], Pending(m, steps, i))
                  ELSE Ev(steps[i][1], steps[i][2], steps[i][3])]
  IN [m EXCEPT
        !.tr.ev = @ \o evs,
        !.tr.bus = IF f = 0 THEN @ ELSE @ \o m.dsi.buf \o Queued(steps, 1, f),
        !.dsi.buf = (IF f = 0 THEN @ ELSE <<>>) \o Queued(steps, f + 1, n)]


\* the software-desired and hardware-confirmed fields of a driver instance
Snap(c) ==
  [feat |-> c.feat, auto_mode_vrefresh |-> c.auto_mode_vrefresh,
   sw_te_freq |-> c.sw_te_freq, panel_idle_vrefresh |-> c.panel_idle_vrefresh,
   op_hz |-> c.op_hz, hw_feat |-> c.hw_feat, hw_vrefresh |-> c.hw_vrefresh,
   hw_idle_vrefresh |-> c.hw_idle_vrefresh, hw_te_freq |-> c.hw_te_freq,
   hw_te_option |-> c.hw_te_option]

\* what a caller of set_panel_feat asks for: the refresh rate and TE
\* frequency of the mode (or the vrefresh argument) and the idle vrefresh
Req(vrefresh, idle_vrefresh, te_freq, vrr) ==
  [vrefresh |-> vrefresh, idle_vrefresh |-> idle_vrefresh,
   te_freq |-> te_freq, vrr |-> vrr]

\* the feature bits and rates a set_panel_feat call settles on (its local
\* variables after the overrides of the mode and the build), which it
\* compares with the hardware-confirmed copy and programs
Want(feat, vrefresh, idle_vrefresh, te_freq) ==
  [feat |-> feat, vrefresh |-> vrefresh, idle_vrefresh |-> idle_vrefresh,
   te_freq |-> te_freq]

\* record of one set_panel_feat call: what was asked for, what it settled
\* on, the driver state on entry (before) and on return (after), and its
\* events tr.ev[first..last]
Called(m0, m1, req, want, enforce) ==
  [m1 EXCEPT !.tr.calls = Append(@,
     [req |-> req, want |-> want, enforce |-> enforce,
      before |-> Snap(m0.ctx), after |-> Snap(m1.ctx),
      first |-> Len(m0.tr.ev) + 1, last |-> Len(m1.tr.ev)])]

(***************************************************************************)
(* Idle policy.                                                            *)
(***************************************************************************)
\* delta_ms is panel_get_idle_time_delta(ctx), read from the clock
is_auto_mode_allowed(c, delta_ms) ==
  IF c.dimming_on THEN FALSE
  ELSE IF c.idle_delay_ms /= 0 /\ delta_ms < c.idle_delay_ms THEN FALSE
  ELSE c.panel_idle_enabled

\* a plausible bug: a minimum equal to the vrefresh of the mode is let through
get_min_idle_vrefresh_inclusive(c, pmode, delta_ms) ==
  LET vrefresh == drm_mode_vrefresh(pmode)
      q == IF c.min_vrefresh <= 1 THEN 1
           ELSE IF c.min_vrefresh <= 10 THEN 10
           ELSE IF c.min_vrefresh <= 30 THEN 30
           ELSE 0
  IN IF c.min_vrefresh < 0 \/ ~is_auto_mode_allowed(c, delta_ms) THEN 0
     ELSE IF q = 0 THEN 0
     ELSE IF q > vrefresh THEN 0
     ELSE q

\* lines 268-295 (panel-gs-ct3b.c 569-596)
ct3a_get_min_idle_vrefresh(c, pmode, delta_ms) ==
  LET vrefresh == drm_mode_vrefresh(pmode)
      q == IF c.min_vrefresh <= 1 THEN 1
           ELSE IF c.min_vrefresh <= 10 THEN 10
           ELSE IF c.min_vrefresh <= 30 THEN 30
           ELSE 0
  IN IF c.min_vrefresh < 0 \/ ~is_auto_mode_allowed(c, delta_ms) THEN 0
     ELSE IF q = 0 THEN 0
     ELSE IF q >= vrefresh THEN 0
     ELSE q

(***************************************************************************)
(* panel-google-ct3a.c                                                     *)
(*                                                                         *)
(* A register write and the 0xB0 offset write that addresses it are one    *)
(* command of the model, tagged by what it programs:                       *)
(*   unlock_cmd_f0, lock_cmd_f0   test key 0xF0 0x5A 0x5A / 0xA5 0xA5      *)
(*   te       0xB9 TE setting (value: first parameter byte)                *)
(*   op       0xF2/0x60 operating mode NS or HS (value: the 0x60 byte)     *)
(*   ee       0xBD early exit on/off (value: the byte)                     *)
(*   fi_op, fi, freq, fi_step, fi_ramp                                     *)
(*            frequency setting: frame insertion auto/manual, target or    *)
(*            manual frequency (value: the frequency byte), step setting   *)
(*   ltps_update                                                           *)
(***************************************************************************)
\* lines 317-326: a VRR mode runs the panel in manual 1 Hz with early exit
ct3a_vrr_feat(feat, pmode) ==
  ((feat \cup {FEAT_EARLY_EXIT}) \ {FEAT_FRAME_AUTO, FEAT_OP_NS})
    \cup (IF pmode.ns THEN {FEAT_OP_NS} ELSE {})

\* lines 354-375
ct3a_te_setting(c, feat, is_vrr, te_freq) ==
  IF FEAT_EARLY_EXIT \in feat /\ ~c.force_changeable_te
    THEN IF is_vrr /\ te_freq = 240
           THEN <<Add("te", 97)>>      \* 240Hz multi TE: 0xB9 0x61
           ELSE <<Add("te", 81)>>      \* 120Hz fixed TE: 0xB9 0x51
    ELSE IF c.panel_rev = "PROTO1"
           THEN <<Add("te", 0)>>       \* changeable TE
           ELSE <<Add("te", 4)>>

\* a plausible bug: the normal-speed table is used in high speed too
auto_freq_ns_table(ns, idle_vrefresh) ==
  IF idle_vrefresh = 30 THEN <<Add("freq", 4)>>
  ELSE IF idle_vrefresh = 10 THEN <<Add("freq", 20)>>
  ELSE (IF idle_vrefresh /= 1
          THEN <<Warn("unsupported target freq", idle_vrefresh)>>
          ELSE <<>>) \o <<Add("freq", 236)>>

\* lines 426-438 and 440-453: target frequency byte in auto mode
ct3a_auto_freq(ns, idle_vrefresh) ==
  IF ns
    THEN IF idle_vrefresh = 30 THEN <<Add("freq", 4)>>
         ELSE IF idle_vrefresh = 10 THEN <<Add("freq", 20)>>
         ELSE (IF idle_vrefresh /= 1
                 THEN <<Warn("unsupported target freq", idle_vrefresh)>>
                 ELSE <<>>) \o <<Add("freq", 236)>>
    ELSE IF idle_vrefresh = 60 THEN <<Add("freq", 2)>>
         ELSE IF idle_vrefresh = 30 THEN <<Add("freq", 6)>>
         ELSE IF idle_vrefresh = 10 THEN <<Add("freq", 22)>>
         ELSE (IF idle_vrefresh /= 1
                 THEN <<Warn("unsupported target freq", idle_vrefresh)>>
                 ELSE <<>>) \o <<Add("freq", 236)>>

\* lines 486-524: frequency byte in manual mode, with the warning that
\* precedes the default byte
ct3a_manual_freq(c, ns, vrefresh) ==
  IF ns
    THEN IF vrefresh = 1 THEN <<<<>>, 29>>
         ELSE IF vrefresh = 10 THEN <<<<>>, 28>>
         ELSE IF vrefresh = 30 THEN <<<<>>, 25>>
         ELSE <<IF vrefresh /= 60
                  THEN <<Warn("unsupported manual freq", vrefresh)>>
                  ELSE <<>>, 24>>
    ELSE IF vrefresh = 1 THEN <<<<>>, 6>>
         ELSE IF vrefresh = 10 THEN <<<<>>, 5>>
         ELSE IF vrefresh = 30
                THEN <<<<>>, IF PANEL_REV_LT(c.panel_rev, "EVT1") THEN 2 ELSE 3>>
         ELSE IF vrefresh = 60
                THEN <<<<>>, IF PANEL_REV_LT(c.panel_rev, "EVT1") THEN 1 ELSE 2>>
         ELSE <<IF vrefresh /= 120
                  THEN <<Warn("unsupported manual freq", vrefresh)>>
                  ELSE <<>>, 0>>

\* lines 417-530: frequency setting
ct3a_frequency_setting(c, feat, is_vrr, vrefresh, idle_vrefresh) ==
  LET ns == FEAT_OP_NS \in feat
      man == ct3a_manual_freq(c, ns, vrefresh)
  IN IF FEAT_FRAME_AUTO \in feat
       THEN <<Add("fi_op", IF ns THEN 24 ELSE 0), Add("fi", 227)>>
            \o ct3a_auto_freq(ns, idle_vrefresh)
            \o <<Add("fi_step", 0), Add("fi_step", 1)>>
            \o (IF PANEL_REV_GE(c.panel_rev, "PROTO1_2")
                  THEN <<Add("fi_ramp", 0)>> ELSE <<>>)
       ELSE (IF ~is_vrr THEN <<Add("fi", 225)>> ELSE <<>>)
            \o man[1]
            \o <<Add("freq", man[2])>>
            \o (IF is_vrr THEN <<Flush>> ELSE <<>>)

\* a plausible bug: the early-exit command is queued ahead of the TE setting
feat_cmds_early_exit_first(c, feat, changed_feat, is_vrr, vrefresh, idle_vrefresh, te_freq) ==
  <<Add("unlock_cmd_f0", 0)>>
  \o <<Add("ee", IF is_vrr THEN 65
                 ELSE IF FEAT_EARLY_EXIT \in feat THEN 1 ELSE 129)>>
  \o (IF FEAT_EARLY_EXIT \in changed_feat \/ FEAT_OP_NS \in changed_feat
         \/ c.hw_vrefresh /= vrefresh \/ c.hw_te_freq /= te_freq
        THEN ct3a_te_setting(c, feat, is_vrr, te_freq) ELSE <<>>)
  \o (IF FEAT_OP_NS \in changed_feat
        THEN <<Add("op", IF FEAT_OP_NS \in feat THEN 24 ELSE 0)>> ELSE <<>>)
  \o ct3a_frequency_setting(c, feat, is_vrr, vrefresh, idle_vrefresh)
  \o <<Add("ltps_update", 0)>>
  \o (IF is_vrr THEN <<Flush>> ELSE <<>>)
  \o <<Add("lock_cmd_f0", 0), Flush>>

\* lines 349-536: the command sequence of a call that is not skipped
ct3a_feat_cmds(c, feat, changed_feat, is_vrr, vrefresh, idle_vrefresh, te_freq) ==
  <<Add("unlock_cmd_f0", 0)>>
  \o (IF FEAT_EARLY_EXIT \in changed_feat \/ FEAT_OP_NS \in changed_feat
         \/ c.hw_vrefresh /= vrefresh \/ c.hw_te_freq /= te_freq
        THEN ct3a_te_setting(c, feat, is_vrr, te_freq) ELSE <<>>)
  \o (IF FEAT_OP_NS \in changed_feat
        THEN <<Add("op", IF FEAT_OP_NS \in feat THEN 24 ELSE 0)>> ELSE <<>>)
  \o <<Add("ee", IF is_vrr THEN 65
                 ELSE IF FEAT_EARLY_EXIT \in feat THEN 1 ELSE 129)>>
  \o ct3a_frequency_setting(c, feat, is_vrr, vrefresh, idle_vrefresh)
  \o <<Add("ltps_update", 0)>>
  \o (IF is_vrr THEN <<Flush>> ELSE <<>>)
  \o <<Add("lock_cmd_f0", 0), Flush>>

\* a plausible bug: the hardware-confirmed idle vrefresh is not refreshed
ct3a_hw_update_stale_idle(m, feat, vrefresh, idle_vrefresh, te_freq) ==
  [Run(m, <<Hw("vrefresh"), Hw("te_freq"), Hw("feat")>>)
     EXCEPT !.ctx.hw_vrefresh = vrefresh,
            !.ctx.hw_te_freq = te_freq,
            !.ctx.hw_feat = feat]

\* lines 538-541: the hardware-confirmed copy
ct3a_hw_update(m, feat, vrefresh, idle_vrefresh, te_freq) ==
  [Run(m, <<Hw("vrefresh"), Hw("idle_vrefresh"), Hw("te_freq"), Hw("feat")>>)
     EXCEPT !.ctx.hw_vrefresh = vrefresh,
            !.ctx.hw_idle_vrefresh = idle_vrefresh,
            !.ctx.hw_te_freq = te_freq,
            !.ctx.hw_feat = feat]

\* a plausible bug: the idle vrefresh is compared with the wrong field
no_changes_idle_vs_vrefresh(c, feat, vrefresh, idle_vrefresh, te_freq, enforce) ==
  /\ ~enforce
  /\ bitmap_xor(feat, c.hw_feat) = {}
  /\ vrefresh = c.hw_vrefresh
  /\ idle_vrefresh = c.hw_vrefresh
  /\ te_freq = c.hw_te_freq

\* lines 328-339: nothing to do when not forced and nothing differs
ct3a_no_changes(c, feat, vrefresh, idle_vrefresh, te_freq, enforce) ==
  /\ ~enforce
  /\ bitmap_xor(feat, c.hw_feat) = {}
  /\ vrefresh = c.hw_vrefresh
  /\ idle_vrefresh = c.hw_idle_vrefresh
  /\ te_freq = c.hw_te_freq

ct3a_set_panel_feat(m0, pmode, idle_arg, enforce) ==
  LET is_vrr == is_vrr_mode(pmode)
      te_freq == drm_mode_te_freq(pmode)
      vrefresh == IF is_vrr THEN 1 ELSE drm_mode_vrefresh(pmode)
      idle_vrefresh == IF is_vrr THEN 0 ELSE idle_arg
      feat == IF is_vrr THEN ct3a_vrr_feat(m0.ctx.feat, pmode) ELSE m0.ctx.feat
      m1 == [m0 EXCEPT !.ctx.feat = feat]
      changed_feat == IF enforce THEN FEAT_MAX
                      ELSE bitmap_xor(feat, m1.ctx.hw_feat)
      m2 == Run(m1, ct3a_feat_cmds(m1.ctx, feat, changed_feat, is_vrr,
                                   vrefresh, idle_vrefresh, te_freq))
  IN Called(m0,
            IF ct3a_no_changes(m1.ctx, feat, vrefresh, idle_vrefresh, te_freq, enforce)
              THEN m1
              ELSE ct3a_hw_update(m2, feat, vrefresh, idle_vrefresh, te_freq),
            Req(drm_mode_vrefresh(pmode), idle_arg, te_freq, is_vrr),
            Want(feat, vrefresh, idle_vrefresh, te_freq), enforce)

\* lines 552-559
ct3a_update_panel_feat(m, enforce) ==
  ct3a_set_panel_feat(m, m.ctx.current_mode, m.ctx.auto_mode_vrefresh, enforce)

\* lines 561-594
ct3a_update_refresh_mode(m, pmode, idle_vrefresh) ==
  LET vrefresh == drm_mode_vrefresh(pmode)
      f1 == IF idle_vrefresh /= 0 THEN m.ctx.feat \cup {FEAT_FRAME_AUTO}
            ELSE m.ctx.feat \ {FEAT_FRAME_AUTO}
      f2 == IF vrefresh = 120 \/ idle_vrefresh /= 0
              THEN f1 \cup {FEAT_EARLY_EXIT}
              ELSE f1 \ {FEAT_EARLY_EXIT}
      m1 == [m EXCEPT !.ctx.feat = f2,
                      !.ctx.auto_mode_vrefresh = idle_vrefresh,
                      !.ctx.panel_idle_vrefresh = idle_vrefresh]
  IN Log(ct3a_set_panel_feat(m1, pmode, idle_vrefresh, FALSE),
         "notify", "panel_mode_changed", 0)

\* lines 596-617
ct3a_change_frequency(m, pmode, delta_ms) ==
  LET vrefresh == drm_mode_vrefresh(pmode)
  IN IF vrefresh > m.ctx.op_hz
       THEN Log(m, "err", "invalid freq setting", vrefresh)
       ELSE ct3a_update_refresh_mode(m, pmode,
              IF pmode.idle_mode = "ON_INACTIVITY"
                THEN ct3a_get_min_idle_vrefresh(m.ctx, pmode, delta_ms)
                ELSE 0)

(***************************************************************************)
(* panel-gs-ct3a.c: the functions that differ from panel-google-ct3a.c.    *)
(* Additional command tags: te_width (0xB9 TE width of multi TE), te_sel   *)
(* (0xB9 second byte of fixed TE), freq_f2 (0xF2 0x01 before the manual    *)
(* frequency byte).                                                        *)
(***************************************************************************)
\* lines 291-302: a build that is not the factory build always runs the
\* panel in manual 1 Hz with early exit
gs_ct3a_feat(c, pmode) ==
  IF c.factory THEN c.feat
  ELSE LET f == (c.feat \cup {FEAT_EARLY_EXIT}) \ {FEAT_FRAME_AUTO}
       IN IF ~is_vrr_mode(pmode) THEN f
          ELSE IF pmode.ns THEN f \cup {FEAT_OP_NS} ELSE f \ {FEAT_OP_NS}

\* lines 328-364, with the hw_status.te.option assignment at 353 and 363
gs_ct3a_te_setting(c, feat, is_vrr, te_freq) ==
  (IF FEAT_EARLY_EXIT \in feat /\ ~c.force_changeable_te
     THEN IF is_vrr /\ te_freq = 240
            THEN <<Add("te_width", IF FEAT_OP_NS \in feat THEN 198 ELSE 224),
                   Add("te", 97)>>
            ELSE <<Add("te", 81),
                   Add("te_sel", IF FEAT_OP_NS \in feat \/ te_freq /= 60
                                   THEN 0 ELSE 1)>>
     ELSE IF c.panel_rev = "PROTO1"
            THEN <<Add("te", 0)>>
            ELSE <<Add("te", 4)>>)
  \o <<Hw("te_option")>>

\* lines 326-327: whether the TE setting is rewritten
gs_ct3a_te_changed(c, changed_feat, te_freq) ==
  \/ FEAT_EARLY_EXIT \in changed_feat
  \/ FEAT_OP_NS \in changed_feat
  \/ c.hw_te_freq /= te_freq

\* lines 454-505: frequency byte in manual mode
gs_ct3a_manual_freq(c, ns, vrefresh) ==
  IF ns
    THEN IF vrefresh = 1
           THEN <<<<>>, IF PANEL_REV_GE(c.panel_rev, "PROTO1_2") THEN 30 ELSE 29>>
         ELSE IF vrefresh = 10 THEN <<<<>>, 28>>
         ELSE IF vrefresh = 30 THEN <<<<>>, 25>>
         ELSE <<IF vrefresh /= 60
                  THEN <<Warn("unsupported manual freq", vrefresh)>>
                  ELSE <<>>, 24>>
    ELSE IF vrefresh = 1 THEN <<<<>>, 6>>
         ELSE IF vrefresh = 10 THEN <<<<>>, 5>>
         ELSE IF vrefresh = 30
                THEN <<<<>>, IF PANEL_REV_LT(c.panel_rev, "EVT1") THEN 2 ELSE 3>>
         ELSE IF vrefresh = 60
                THEN <<<<>>, IF PANEL_REV_LT(c.panel_rev, "EVT1") THEN 1 ELSE 2>>
         ELSE <<IF vrefresh /= 120
                  THEN <<Warn("unsupported manual freq", vrefresh)>>
                  ELSE <<>>, 0>>

\* lines 385-511: frequency setting
gs_ct3a_frequency_setting(c, feat, is_vrr, vrefresh, idle_vrefresh) ==
  LET ns == FEAT_OP_NS \in feat
      man == gs_ct3a_manual_freq(c, ns, vrefresh)
  IN IF FEAT_FRAME_AUTO \in feat
       THEN <<Add("fi_op", IF ns THEN 24 ELSE 0), Add("fi", 227)>>
            \o ct3a_auto_freq(ns, idle_vrefresh)
            \o <<Add("fi_step", 0), Add("fi_step", 1)>>
            \o (IF PANEL_REV_GE(c.panel_rev, "PROTO1_2")
                  THEN <<Add("fi_ramp", 0)>> ELSE <<>>)
       ELSE (IF ~is_vrr THEN <<Add("fi", 225)>> ELSE <<>>)
            \o (IF ns /\ is_vrr THEN <<Add("fi_ramp", 0), Add("te", 97)>> ELSE <<>>)
            \o <<Add("freq_f2", 1)>>
            \o man[1]
            \o <<Add("freq", man[2])>>
            \o (IF is_vrr THEN <<Flush>> ELSE <<>>)

\* lines 323-517: the command sequence of a call that is not skipped
gs_ct3a_feat_cmds(c, feat, changed_feat, is_vrr, vrefresh, idle_vrefresh, te_freq) ==
  <<Add("unlock_cmd_f0", 0)>>
  \o (IF gs_ct3a_te_changed(c, changed_feat, te_freq)
        THEN gs_ct3a_te_setting(c, feat, is_vrr, te_freq) ELSE <<>>)
  \o <<Add("ee", IF is_vrr THEN 65
                 ELSE IF FEAT_EARLY_EXIT \in feat THEN 1 ELSE 129)>>
  \o gs_ct3a_frequency_setting(c, feat, is_vrr, vrefresh, idle_vrefresh)
  \o <<Add("ltps_update", 0)>>
  \o (IF is_vrr THEN <<Flush>> ELSE <<>>)
  \o <<Add("lock_cmd_f0", 0), Flush>>

\* lines 353 and 363: the TE option the TE setting leaves
gs_ct3a_te_option(c, feat, changed_feat, te_freq) ==
  IF ~gs_ct3a_te_changed(c, changed_feat, te_freq) THEN c.hw_te_option
  ELSE IF FEAT_EARLY_EXIT \in feat /\ ~c.force_changeable_te THEN "FIXED"
  ELSE "CHANGEABLE"

\* lines 279-523
gs_ct3a_set_panel_feat(m0, pmode, idle_arg, enforce) ==
  LET is_vrr == is_vrr_mode(pmode)
      te_freq == drm_mode_te_freq(pmode)
      vrefresh == IF m0.ctx.factory THEN drm_mode_vrefresh(pmode) ELSE 1
      idle_vrefresh == IF m0.ctx.factory THEN idle_arg ELSE 0
      feat == gs_ct3a_feat(m0.ctx, pmode)
      m1 == [m0 EXCEPT !.ctx.feat = feat]
      changed_feat == IF enforce THEN FEAT_MAX
                      ELSE bitmap_xor(feat, m1.ctx.hw_feat)
      m2 == Run([m1 EXCEPT !.ctx.sw_te_freq = te_freq],
                gs_ct3a_feat_cmds(m1.ctx, feat, changed_feat, is_vrr,
                                  vrefresh, idle_vrefresh, te_freq))
      m3 == [m2 EXCEPT !.ctx.hw_te_option =
                          gs_ct3a_te_option(m1.ctx, feat, changed_feat, te_freq)]
  IN Called(m0,
            IF ct3a_no_changes(m1.ctx, feat, vrefresh, idle_vrefresh, te_freq, enforce)
              THEN m1
              ELSE ct3a_hw_update(m3, feat, vrefresh, idle_vrefresh, te_freq),
            Req(drm_mode_vrefresh(pmode), idle_arg, te_freq, is_vrr),
            Want(feat, vrefresh, idle_vrefresh, te_freq), enforce)

\* lines 533-540
gs_ct3a_update_panel_feat(m, enforce) ==
  gs_ct3a_set_panel_feat(m, m.ctx.current_mode, m.ctx.auto_mode_vrefresh, enforce)

\* lines 542-564
gs_ct3a_update_refresh_mode(m, pmode, idle_vrefresh) ==
  Log(gs_ct3a_set_panel_feat(
        [m EXCEPT !.ctx.auto_mode_vrefresh = idle_vrefresh,
                  !.ctx.panel_idle_vrefresh = idle_vrefresh],
        pmode, idle_vrefresh, FALSE),
      "notify", "panel_mode_changed", 0)

\* lines 566-588
gs_ct3a_change_frequency(m, pmode, delta_ms) ==
  LET vrefresh == drm_mode_vrefresh(pmode)
      m1 == gs_ct3a_update_refresh_mode(m, pmode,
              IF pmode.idle_mode = "ON_INACTIVITY"
                THEN ct3a_get_min_idle_vrefresh(m.ctx, pmode, delta_ms)
                ELSE 0)
  IN IF vrefresh > m.ctx.op_hz
       THEN Log(m, "err", "invalid freq setting", vrefresh)
       ELSE [m1 EXCEPT !.ctx.sw_te_freq = drm_mode_te_freq(pmode)]

(***************************************************************************)
(* panel-google-ct3b.c.  Command tags: ee (0x6F 0x01, 0x6D early exit      *)
(* on/off), ee_te (0x5A of the early-exit sequence), freq_sel (0x2F),      *)
(* freq (0x6D frequency byte), freq_120 (0x26 0x00).                       *)
(***************************************************************************)
\* lines 411-419: early exit enable or disable
ct3b_early_exit(feat) ==
  IF FEAT_EARLY_EXIT \in feat
    THEN <<Add("ee", 1), Add("ee_te", 0)>>
    ELSE <<Add("ee", 0), Add("ee_te", 1)>>

\* the frequency byte of 60, 30, 10 and 1 Hz
ct3b_freq_val(c, k) == IF PANEL_REV_LT(c.panel_rev, "EVT1_1") THEN k ELSE k + 1

\* lines 427-500: FI, frequency, idle frequency
ct3b_frequency(c, feat, vrefresh, idle_vrefresh) ==
  IF FEAT_FRAME_AUTO \in feat
    THEN <<Add("freq_sel", 48)>>
         \o (IF idle_vrefresh = 60 THEN <<Add("freq", ct3b_freq_val(c, 0))>>
             ELSE IF idle_vrefresh = 30 THEN <<Add("freq", ct3b_freq_val(c, 1))>>
             ELSE IF idle_vrefresh = 10 THEN <<Add("freq", ct3b_freq_val(c, 2))>>
             ELSE (IF idle_vrefresh /= 1
                     THEN <<Warn("unsupported target freq", idle_vrefresh)>>
                     ELSE <<>>) \o <<Add("freq", ct3b_freq_val(c, 3))>>)
         \o <<Flush>>
    ELSE IF vrefresh = 1
           THEN <<Add("freq_sel", 48), Add("freq", ct3b_freq_val(c, 3)), Flush>>
         ELSE IF vrefresh = 10
           THEN <<Add("freq_sel", 48), Add("freq", ct3b_freq_val(c, 2)), Flush>>
         ELSE IF vrefresh = 30
           THEN <<Add("freq_sel", 48), Add("freq", ct3b_freq_val(c, 1)), Flush>>
         ELSE IF vrefresh = 60
           THEN <<Add("freq_sel", 48), Add("freq", ct3b_freq_val(c, 0)), Flush>>
         ELSE (IF vrefresh /= 120
                 THEN <<Warn("unsupported manual freq", vrefresh)>>
                 ELSE <<>>)
              \o <<Add("freq_sel", 0), Add("freq_120", 0), Flush>>

\* lines 383-393: nothing to do when not forced and nothing differs
ct3b_no_changes(c, feat, vrefresh, idle_vrefresh, enforce) ==
  /\ ~enforce
  /\ bitmap_xor(feat, c.hw_feat) = {}
  /\ vrefresh = c.hw_vrefresh
  /\ idle_vrefresh = c.hw_idle_vrefresh

\* lines 375-501: the hardware-confirmed copy is assigned at 395-397,
\* ahead of the commands
ct3b_set_panel_feat(m0, vrefresh, idle_vrefresh, enforce) ==
  LET feat == m0.ctx.feat
      m1 == [Run(m0, <<Hw("vrefresh"), Hw("idle_vrefresh"), Hw("feat")>>)
               EXCEPT !.ctx.hw_vrefresh = vrefresh,
                      !.ctx.hw_idle_vrefresh = idle_vrefresh,
                      !.ctx.hw_feat = feat]
      m2 == Run(m1, ct3b_early_exit(feat)
                    \o ct3b_frequency(m1.ctx, feat, vrefresh, idle_vrefresh))
  IN Called(m0,
            IF ct3b_no_changes(m0.ctx, feat, vrefresh, idle_vrefresh, enforce)
              THEN m0 ELSE m2,
            Req(vrefresh, idle_vrefresh, 0, FALSE),
            Want(feat, vrefresh, idle_vrefresh, 0), enforce)

\* lines 511-519
ct3b_update_panel_feat(m, enforce) ==
  ct3b_set_panel_feat(m, drm_mode_vrefresh(m.ctx.current_mode),
                      m.ctx.auto_mode_vrefresh, enforce)

\* lines 521-552
ct3b_update_refresh_mode(m, pmode, idle_vrefresh) ==
  LET m1 == [m EXCEPT !.ctx.feat = IF idle_vrefresh /= 0
                                     THEN @ \cup {FEAT_FRAME_AUTO, FEAT_EARLY_EXIT}
                                     ELSE @ \ {FEAT_FRAME_AUTO, FEAT_EARLY_EXIT},
                      !.ctx.auto_mode_vrefresh = idle_vrefresh,
                      !.ctx.panel_idle_vrefresh = idle_vrefresh]
  IN Log(ct3b_set_panel_feat(m1, drm_mode_vrefresh(pmode), idle_vrefresh, FALSE),
         "notify", "panel_mode_changed", 0)

\* lines 554-569
ct3b_change_frequency(m, pmode, delta_ms) ==
  ct3b_update_refresh_mode(m, pmode,
    IF pmode.idle_mode = "ON_INACTIVITY"
      THEN ct3a_get_min_idle_vrefresh(m.ctx, pmode, delta_ms)
      ELSE 0)

(***************************************************************************)
(* panel-gs-ct3b.c.  ctx.auto_mode_vrefresh is sw_status.idle_vrefresh.    *)
(* Additional command tags: te_page (0xF0 page select and 0xBE), te (0x35  *)
(* TE on 60 Hz or not), te_width (0xBA), fi_manual (0xBA manual frame      *)
(* insertion on/off).                                                      *)
(***************************************************************************)
\* lines 598-621
ct3b_set_panel_feat_manual_mode_fi(c) ==
  LET enabled == FEAT_FRAME_MANUAL_FI \in c.feat
  IN <<Add("freq_sel", 0), Add("fi_page", 0),
       Add("fi_manual", IF enabled THEN 33 ELSE 17),
       Add("fi_manual", IF enabled THEN 161 ELSE 1),
       Add("freq_sel", 48), Add("freq", 4)>>

\* lines 755-776: TE setting of a build that is not the factory build
gs_ct3b_te_setting(c, te_freq) ==
  IF c.factory THEN <<>>
  ELSE IF te_freq = 60
    THEN <<Add("te_page", 0), Add("te", 1), Add("te_width", 119)>>
    ELSE <<Add("te_page", 0), Add("te", 0), Add("te_width", 0)>>

\* lines 783-793: early exit, with the hw_status.te.option assignment
gs_ct3b_early_exit(feat) == ct3b_early_exit(feat) \o <<Hw("te_option")>>

\* lines 738-748
gs_ct3b_no_changes(c, feat, vrefresh, idle_vrefresh, te_freq, enforce) ==
  /\ ~enforce
  /\ bitmap_xor(feat, c.hw_feat) = {}
  /\ vrefresh = c.hw_vrefresh
  /\ idle_vrefresh = c.hw_idle_vrefresh
  /\ te_freq = c.hw_te_freq

\* lines 717-810
gs_ct3b_set_panel_feat(m0, pmode, enforce) ==
  LET c0 == m0.ctx
      te_freq == drm_mode_te_freq(pmode)
      manual == ~c0.factory /\ FEAT_FRAME_AUTO \notin c0.feat
      vrefresh == IF manual
                    THEN (IF c0.auto_mode_vrefresh /= 0
                            THEN c0.auto_mode_vrefresh ELSE 1)
                    ELSE drm_mode_vrefresh(pmode)
      idle_vrefresh == IF manual THEN 0 ELSE c0.auto_mode_vrefresh
      feat == IF c0.factory THEN c0.feat ELSE c0.feat \cup {FEAT_EARLY_EXIT}
      m1 == [m0 EXCEPT !.ctx.feat = feat]
      changed_feat == IF enforce THEN FEAT_MAX
                      ELSE bitmap_xor(feat, m1.ctx.hw_feat)
      m2 == Run([m1 EXCEPT !.ctx.sw_te_freq = IF c0.factory THEN @ ELSE te_freq],
                gs_ct3b_te_setting(m1.ctx, te_freq)
                \o gs_ct3b_early_exit(feat)
                \o (IF FEAT_FRAME_MANUAL_FI \in changed_feat
                      THEN ct3b_set_panel_feat_manual_mode_fi(m1.ctx) ELSE <<>>)
                \o ct3b_frequency(m1.ctx, feat, vrefresh, idle_vrefresh))
      m3 == [m2 EXCEPT !.ctx.hw_te_option =
                          IF FEAT_EARLY_EXIT \in feat THEN "FIXED" ELSE "CHANGEABLE"]
  IN Called(m0,
            IF gs_ct3b_no_changes(m1.ctx, feat, vrefresh, idle_vrefresh, te_freq, enforce)
              THEN m1
              ELSE ct3a_hw_update(m3, feat, vrefresh, idle_vrefresh, te_freq),
            Req(drm_mode_vrefresh(pmode), c0.auto_mode_vrefresh, te_freq,
                is_vrr_mode(pmode)),
            Want(feat, vrefresh, idle_vrefresh, te_freq), enforce)

\* lines 812-825
gs_ct3b_update_panel_feat(m, enforce) ==
  gs_ct3b_set_panel_feat(m, m.ctx.current_mode, enforce)

\* lines 827-848
gs_ct3b_update_refresh_mode(m, pmode, idle_vrefresh) ==
  Log(gs_ct3b_set_panel_feat(
        [m EXCEPT !.ctx.auto_mode_vrefresh = idle_vrefresh,
                  !.ctx.panel_idle_vrefresh = idle_vrefresh],
        pmode, FALSE),
      "notify", "panel_mode_changed", 0)

\* lines 850-868
gs_ct3b_change_frequency(m, pmode, delta_ms) ==
  LET idle0 == IF pmode.idle_mode = "ON_INACTIVITY"
                 THEN ct3a_get_min_idle_vrefresh(m.ctx, pmode, delta_ms)
                 ELSE 0
      idle_vrefresh == IF FEAT_FRAME_AUTO \in m.ctx.feat
                         THEN m.ctx.auto_mode_vrefresh ELSE idle0
  IN [gs_ct3b_update_refresh_mode(m, pmode, idle_vrefresh)
        EXCEPT !.ctx.sw_te_freq = drm_mode_te_freq(pmode)]

(***************************************************************************)
(* panel-gs-ct3c.c and panel-gs-ct3e.c: change_frequency.  Command tags:   *)
(* op_sel (0xF2 operating rate), freq (0x60 / 0x83 frequency byte), porch  *)
(* (0xF2 porch, second byte), src_timing (0xF6), em_off (0x65 offset),     *)
(* gamma (0x6A), freq_update (0xF7).                                       *)
(***************************************************************************)
\* panel-gs-ct3c.c lines 194-262
ct3c_proto_change_frequency(m, pmode) ==
  LET vrefresh == drm_mode_vrefresh(pmode)
  IN IF vrefresh /= 60 /\ vrefresh /= 120
       THEN WARN(m, "invalid refresh rate", vrefresh)
     ELSE IF vrefresh > m.ctx.op_hz
       THEN Log(m, "err", "invalid freq setting", vrefresh)
     ELSE Run(m, <<Add("unlock_cmd_f0", 0)>>
                 \o (IF m.ctx.op_hz = 60
                       THEN <<Add("op_sel", 130), Add("freq", 0), Add("porch", 12),
                              Add("src_timing", 33)>>
                       ELSE <<Add("op_sel", 2),
                              Add("freq", IF vrefresh = 120 THEN 0 ELSE 8),
                              Add("porch", IF vrefresh = 120 THEN 12 ELSE 156),
                              Add("src_timing", 67)>>)
                 \o <<Add("ltps_update", 0), Add("lock_cmd_f0", 0), Flush>>)

\* panel-gs-ct3c.c lines 264-302
ct3c_freq_change_command(vrefresh) ==
  <<Add("unlock_cmd_f0", 0),
    Add("em_off", IF vrefresh = 60 THEN 212 ELSE 180),
    Add("gamma", 0),
    Add("freq", IF vrefresh = 60 THEN 0 ELSE 8),
    Add("porch", IF vrefresh = 60 THEN 156 ELSE 12),
    Add("ltps_update", 0), Add("lock_cmd_f0", 0), Flush>>

\* panel-gs-ct3c.c lines 304-311
ct3c_te_change_command(vrefresh) ==
  <<Add("unlock_cmd_f0", 0), Add("te", 1), Add("lock_cmd_f0", 0), Flush>>

\* panel-gs-ct3c.c lines 313-324
ct3c_evt_change_frequency(m, pmode) ==
  LET vrefresh == drm_mode_vrefresh(pmode)
  IN IF vrefresh /= 60 /\ vrefresh /= 120 THEN m
     ELSE Run(m, ct3c_freq_change_command(vrefresh)
                 \o ct3c_te_change_command(vrefresh))

\* panel-gs-ct3c.c lines 326-348
ct3c_change_frequency(m, pmode) ==
  LET vrefresh == drm_mode_vrefresh(pmode)
  IN IF m.ctx.panel_rev = "PROTO1" THEN ct3c_proto_change_frequency(m, pmode)
     ELSE IF m.ctx.panel_rev = "EVT1" THEN ct3c_evt_change_frequency(m, pmode)
     ELSE IF vrefresh /= 60 /\ vrefresh /= 120 THEN m
     ELSE Run(m, <<Add("unlock_cmd_f0", 0),
                   Add("freq", IF vrefresh = 120 THEN 8 ELSE 0),
                   Add("ltps_update", 0), Add("lock_cmd_f0", 0), Flush>>)

\* panel-gs-ct3e.c lines 163-179
ct3e_change_frequency(m, pmode) ==
  LET vrefresh == drm_mode_vrefresh(pmode)
  IN IF vrefresh /= 60 /\ vrefresh /= 120 THEN m
     ELSE Run(m, <<Add("unlock_cmd_f0", 0),
                   Add("freq", IF vrefresh = 120 THEN 0 ELSE 8),
                   Add("freq_update", 47), Add("lock_cmd_f0", 0), Flush>>)

(***************************************************************************)
(* The static functions of the driver bound to the device.  Every driver   *)
(* defines its own update_panel_feat, update_refresh_mode and              *)
(* change_frequency; the handlers below that are the same text in several  *)
(* drivers call the ones of their own file.                                *)
(***************************************************************************)
update_panel_feat(m, enforce) ==
  CASE m.ctx.variant = "google_ct3a" -> ct3a_update_panel_feat(m, enforce)
    [] m.ctx.variant = "gs_ct3a" -> gs_ct3a_update_panel_feat(m, enforce)
    [] m.ctx.variant = "google_ct3b" -> ct3b_update_panel_feat(m, enforce)
    [] OTHER -> gs_ct3b_update_panel_feat(m, enforce)

update_refresh_mode(m, pmode, idle_vrefresh) ==
  CASE m.ctx.variant = "google_ct3a" -> ct3a_update_refresh_mode(m, pmode, idle_vrefresh)
    [] m.ctx.variant = "gs_ct3a" -> gs_ct3a_update_refresh_mode(m, pmode, idle_vrefresh)
    [] m.ctx.variant = "google_ct3b" -> ct3b_update_refresh_mode(m, pmode, idle_vrefresh)
    [] OTHER -> gs_ct3b_update_refresh_mode(m, pmode, idle_vrefresh)

change_frequency(m, pmode, delta_ms) ==
  CASE m.ctx.variant = "google_ct3a" -> ct3a_change_frequency(m, pmode, delta_ms)
    [] m.ctx.variant = "gs_ct3a" -> gs_ct3a_change_frequency(m, pmode, delta_ms)
    [] m.ctx.variant = "google_ct3b" -> ct3b_change_frequency(m, pmode, delta_ms)
    [] m.ctx.variant = "gs_ct3c" -> ct3c_change_frequency(m, pmode)
    [] m.ctx.variant = "gs_ct3e" -> ct3e_change_frequency(m, pmode)
    [] OTHER -> gs_ct3b_change_frequency(m, pmode, delta_ms)

\* ct3a_set_panel_feat of panel-google-ct3a.c or of panel-gs-ct3a.c
set_panel_feat(m, pmode, idle_vrefresh, enforce) ==
  IF m.ctx.variant = "gs_ct3a"
    THEN gs_ct3a_set_panel_feat(m, pmode, idle_vrefresh, enforce)
    ELSE ct3a_set_panel_feat(m, pmode, idle_vrefresh, enforce)

(***************************************************************************)
(* Handlers of panel-google-ct3a.c; where panel-gs-ct3a.c,                 *)
(* panel-google-ct3b.c or panel-gs-ct3b.c has the same text, the handler   *)
(* serves that driver too.                                                 *)
(***************************************************************************)
\* lines 635-656: crtc tells whether a vblank can be waited for
ct3a_wait_one_vblank(m, crtc) ==
  IF crtc THEN Log(m, "vblank", "", 0) ELSE SLEEP(m, 8350)

Ret(m, v) == [m EXCEPT !.tr.ret = v]

\* a plausible bug: the call that skips the commands reports a change
set_self_refresh_true_on_skip(m, enable, delta_ms, need_handle_idle_exit, crtc) ==
  LET pmode == m.ctx.current_mode
      min_idle == ct3a_get_min_idle_vrefresh(m.ctx, pmode, delta_ms)
      idle_vrefresh == IF enable THEN min_idle ELSE 0
      m1 == update_refresh_mode(m, pmode, idle_vrefresh)
  IN IF pmode.is_lp_mode
       THEN Ret(Log([m EXCEPT !.ctx.panel_idle_vrefresh = IF enable THEN 1 ELSE 0],
                    "notify", "panel_mode_changed", 0), 0)
     ELSE IF pmode.idle_mode /= "ON_SELF_REFRESH"
       THEN IF pmode.idle_mode = "ON_INACTIVITY"
               /\ m.ctx.auto_mode_vrefresh /= min_idle
              THEN Ret(update_refresh_mode(m, pmode, min_idle), 1)
              ELSE Ret(m, 0)
     ELSE IF m.ctx.panel_idle_vrefresh = idle_vrefresh
       THEN Ret(m, 1)
     ELSE IF idle_vrefresh /= 0
       THEN Ret(Log(m1, "notify", "PANEL_IDLE_ENTER", drm_mode_vrefresh(pmode)), 1)
     ELSE IF need_handle_idle_exit
       THEN Ret(ct3a_wait_one_vblank(m1, crtc), 1)
     ELSE Ret(m1, 1)

\* a plausible bug: the idle refresh rate is not cleared when self refresh ends
set_self_refresh_ignores_enable(m, enable, delta_ms, need_handle_idle_exit, crtc) ==
  LET pmode == m.ctx.current_mode
      min_idle == ct3a_get_min_idle_vrefresh(m.ctx, pmode, delta_ms)
      idle_vrefresh == min_idle
      m1 == update_refresh_mode(m, pmode, idle_vrefresh)
  IN IF pmode.is_lp_mode
       THEN Ret(Log([m EXCEPT !.ctx.panel_idle_vrefresh = IF enable THEN 1 ELSE 0],
                    "notify", "panel_mode_changed", 0), 0)
     ELSE IF pmode.idle_mode /= "ON_SELF_REFRESH"
       THEN IF pmode.idle_mode = "ON_INACTIVITY"
               /\ m.ctx.auto_mode_vrefresh /= min_idle
              THEN Ret(update_refresh_mode(m, pmode, min_idle), 1)
              ELSE Ret(m, 0)
     ELSE IF m.ctx.panel_idle_vrefresh = idle_vrefresh
       THEN Ret(m, 0)
     ELSE IF idle_vrefresh /= 0
       THEN Ret(Log(m1, "notify", "PANEL_IDLE_ENTER", drm_mode_vrefresh(pmode)), 1)
     ELSE IF need_handle_idle_exit
       THEN Ret(ct3a_wait_one_vblank(m1, crtc), 1)
     ELSE Ret(m1, 1)

\* a plausible bug: an on-inactivity mode is only updated on entry
set_self_refresh_inactivity_needs_enable(m, enable, delta_ms, need_handle_idle_exit, crtc) ==
  LET pmode == m.ctx.current_mode
      min_idle == ct3a_get_min_idle_vrefresh(m.ctx, pmode, delta_ms)
      idle_vrefresh == IF enable THEN min_idle ELSE 0
      m1 == update_refresh_mode(m, pmode, idle_vrefresh)
  IN IF pmode.is_lp_mode
       THEN Ret(Log([m EXCEPT !.ctx.panel_idle_vrefresh = IF enable THEN 1 ELSE 0],
                    "notify", "panel_mode_changed", 0), 0)
     ELSE IF pmode.idle_mode /= "ON_SELF_REFRESH"
       THEN IF pmode.idle_mode = "ON_INACTIVITY" /\ enable
               /\ m.ctx.auto_mode_vrefresh /= min_idle
              THEN Ret(update_refresh_mode(m, pmode, min_idle), 1)
              ELSE Ret(m, 0)
     ELSE IF m.ctx.panel_idle_vrefresh = idle_vrefresh
       THEN Ret(m, 0)
     ELSE IF idle_vrefresh /= 0
       THEN Ret(Log(m1, "notify", "PANEL_IDLE_ENTER", drm_mode_vrefresh(pmode)), 1)
     ELSE IF need_handle_idle_exit
       THEN Ret(ct3a_wait_one_vblank(m1, crtc), 1)
     ELSE Ret(m1, 1)

\* lines 658-720 (panel-gs-ct3a.c 629-691, panel-google-ct3b.c 610-671);
\* returns whether the refresh mode was updated
ct3a_set_self_refresh(m, enable, delta_ms, need_handle_idle_exit, crtc) ==
  LET pmode == m.ctx.current_mode
      min_idle == ct3a_get_min_idle_vrefresh(m.ctx, pmode, delta_ms)
      idle_vrefresh == IF enable THEN min_idle ELSE 0
      m1 == update_refresh_mode(m, pmode, idle_vrefresh)
  IN IF pmode.is_lp_mode
       THEN Ret(Log([m EXCEPT !.ctx.panel_idle_vrefresh = IF enable THEN 1 ELSE 0],
                    "notify", "panel_mode_changed", 0), 0)
     ELSE IF pmode.idle_mode /= "ON_SELF_REFRESH"
       THEN IF pmode.idle_mode = "ON_INACTIVITY"
               /\ m.ctx.auto_mode_vrefresh /= min_idle
              THEN Ret(update_refresh_mode(m, pmode, min_idle), 1)
              ELSE Ret(m, 0)
     ELSE IF m.ctx.panel_idle_vrefresh = idle_vrefresh
       THEN Ret(m, 0)
     ELSE IF idle_vrefresh /= 0
       THEN Ret(Log(m1, "notify", "PANEL_IDLE_ENTER", drm_mode_vrefresh(pmode)), 1)
     ELSE IF need_handle_idle_exit
       THEN Ret(ct3a_wait_one_vblank(m1, crtc), 1)
     ELSE Ret(m1, 1)

\* lines 722-740; fi is ctrl & PANEL_REFRESH_CTRL_FI
ct3a_refresh_ctrl(m, fi) ==
  IF ~is_vrr_mode(m.ctx.current_mode)
    THEN WARN(m, "refresh control should be called for vrr mode only", 0)
  ELSE IF fi THEN BUF_ADD(m, "frame_insertion", 0)
  ELSE m

\* lines 783-797 (panel-gs-ct3a.c 734-747)
ct3a_update_wrctrld(m) ==
  BUF_ADD_AND_FLUSH(m, "wrctrld", IF m.ctx.dimming_on THEN 40 ELSE 32)

\* lines 805-844: the commands of set_lp_mode
ct3a_lp_cmds(c) ==
  <<Add("unlock_cmd_f0", 0)>>
  \o (IF c.panel_rev = "PROTO1_1" THEN <<Add("aod", 1)>> ELSE <<>>)
  \o <<Add("wrctrld", 36), Add("freq", 0), Add("te", 81), Add("ee", 1),
       Add("fi", 229), Add("fi_step", 0), Add("ltps_update", 0),
       Add("lock_cmd_f0", 0), Flush>>

\* lines 799-852
ct3a_set_lp_mode(m, pmode) ==
  [Run(m, ct3a_lp_cmds(m.ctx) \o <<Hw("vrefresh"), Hw("te_freq")>>)
     EXCEPT !.ctx.hw_vrefresh = 30, !.ctx.hw_te_freq = 30]

\* panel-gs-ct3a.c lines 749-803
gs_ct3a_set_lp_mode(m, pmode) ==
  [Run(m, ct3a_lp_cmds(m.ctx) \o <<Hw("vrefresh"), Hw("te_freq")>>)
     EXCEPT !.ctx.hw_vrefresh = 30, !.ctx.sw_te_freq = 30, !.ctx.hw_te_freq = 30]

\* is_panel_active(ctx), gs_is_panel_active(ctx)
is_panel_active(c) == c.enabled

\* usleep_range(DELAY_30HZ_ONE_FRAME, ...) of set_nolp_mode
DELAY_30HZ_ONE_FRAME == 34000

\* lines 854-896 (panel-gs-ct3a.c 805-848)
ct3a_set_nolp_mode(m, pmode, delta_ms) ==
  LET idle_vrefresh == m.ctx.auto_mode_vrefresh
      m1 == Run(m,
        <<Add("unlock_cmd_f0", 0), Add("fi", 225), Add("ee", 129),
          Add("te", IF m.ctx.panel_rev = "PROTO1" THEN 0 ELSE 4)>>
        \o (IF m.ctx.panel_rev = "PROTO1_1" THEN <<Add("aod", 0)>> ELSE <<>>))
      m2 == Run(ct3a_update_wrctrld(m1),
        <<Add("ltps_update", 0), Add("lock_cmd_f0", 0), Flush,
          Sleep(DELAY_30HZ_ONE_FRAME)>>)
  IN IF ~is_panel_active(m.ctx) THEN m
     ELSE change_frequency(
            set_panel_feat(m2, pmode, idle_vrefresh, TRUE), pmode, delta_ms)

\* -EINVAL
EINVAL == 22

\* a plausible bug: only the set of rates is tested
op_hz_invalid_rate_only(vrefresh, hz) == hz /= 60 /\ hz /= 120

\* lines 905 and 911 (panel-gs-ct3a.c 857 and 863): the requests refused
ct3a_op_hz_invalid(vrefresh, hz) == vrefresh > hz \/ (hz /= 60 /\ hz /= 120)

\* a plausible bug: the vblank is waited for ahead of the rewrite
set_op_hz_wait_before_update(m, hz, crtc) ==
  LET vrefresh == drm_mode_vrefresh(m.ctx.current_mode)
      m1 == [m EXCEPT !.ctx.op_hz = hz,
                      !.ctx.feat = IF hz = 60 THEN @ \cup {FEAT_OP_NS}
                                   ELSE @ \ {FEAT_OP_NS}]
      w == IF hz = 120 THEN ct3a_wait_one_vblank(m1, crtc) ELSE m1
      m2 == IF is_panel_active(w.ctx) THEN update_panel_feat(w, FALSE)
            ELSE w
  IN IF is_vrr_mode(m.ctx.current_mode)
       THEN Ret(WARN(m, "should be set via mode switch", hz), -EINVAL)
     ELSE IF ct3a_op_hz_invalid(vrefresh, hz)
       THEN Ret(Log(m, "err", "invalid op_hz", hz), -EINVAL)
     ELSE Ret(m2, 0)

\* a plausible bug: the rate is cached ahead of the tests
set_op_hz_caches_before_check(m, hz, crtc) ==
  LET vrefresh == drm_mode_vrefresh(m.ctx.current_mode)
      m1 == [m EXCEPT !.ctx.op_hz = hz,
                      !.ctx.feat = IF hz = 60 THEN @ \cup {FEAT_OP_NS}
                                   ELSE @ \ {FEAT_OP_NS}]
      m2 == IF is_panel_active(m1.ctx) THEN update_panel_feat(m1, FALSE)
            ELSE m1
  IN IF is_vrr_mode(m.ctx.current_mode)
       THEN Ret(WARN(m1, "should be set via mode switch", hz), -EINVAL)
     ELSE IF ct3a_op_hz_invalid(vrefresh, hz)
       THEN Ret(Log(m1, "err", "invalid op_hz", hz), -EINVAL)
     ELSE Ret(IF hz = 120 THEN ct3a_wait_one_vblank(m2, crtc) ELSE m2, 0)

\* lines 898-943 (panel-gs-ct3a.c 850-894)
ct3a_set_op_hz(m, hz, crtc) ==
  LET vrefresh == drm_mode_vrefresh(m.ctx.current_mode)
      m1 == [m EXCEPT !.ctx.op_hz = hz,
                      !.ctx.feat = IF hz = 60 THEN @ \cup {FEAT_OP_NS}
                                   ELSE @ \ {FEAT_OP_NS}]
      m2 == IF is_panel_active(m1.ctx) THEN update_panel_feat(m1, FALSE)
            ELSE m1
  IN IF is_vrr_mode(m.ctx.current_mode)
       THEN Ret(WARN(m, "should be set via mode switch", hz), -EINVAL)
     ELSE IF ct3a_op_hz_invalid(vrefresh, hz)
       THEN Ret(Log(m, "err", "invalid op_hz", hz), -EINVAL)
     ELSE Ret(IF hz = 120 THEN ct3a_wait_one_vblank(m2, crtc) ELSE m2, 0)

\* exynos_panel_disable / gs_panel_disable: the off command set, then the
\* panel is powered down
panel_disable(m) ==
  [DCS_WRITE(m, "display_off", 0) EXCEPT !.ctx.enabled = FALSE]

\* lines 982-1007; rr is ctx->mode_in_progress == MODE_RR_IN_PROGRESS
ct3a_disable(m, rr) ==
  IF rr THEN Ret(m, 0)
  ELSE LET m1 == Run(panel_disable(m),
                     <<Hw("feat"), Hw("vrefresh"), Hw("te_freq"), Hw("idle_vrefresh")>>)
       IN Ret([m1 EXCEPT !.ctx.hw_feat = {},
                         !.ctx.hw_vrefresh = 60,
                         !.ctx.hw_te_freq = 60,
                         !.ctx.hw_idle_vrefresh = 0], 0)

\* panel-gs-ct3a.c lines 933-977
gs_ct3a_set_default_voltage(c, enable) ==
  IF PANEL_REV_LT(c.panel_rev, "EVT1") THEN <<>>
  ELSE <<Add("unlock_cmd_f0", 0), Add("voltage", IF enable THEN 1 ELSE 0),
         Add("lock_cmd_f0", 0), Flush>>

\* panel-gs-ct3a.c lines 979-1005
gs_ct3a_disable(m, rr) ==
  IF rr THEN Ret(m, 0)
  ELSE LET m1 == Run(panel_disable(Run(m, gs_ct3a_set_default_voltage(m.ctx, FALSE))),
                     <<Hw("feat"), Hw("vrefresh"), Hw("te_freq"), Hw("idle_vrefresh")>>)
       IN Ret([m1 EXCEPT !.ctx.hw_feat = {},
                         !.ctx.hw_vrefresh = 60,
                         !.ctx.sw_te_freq = 60,
                         !.ctx.hw_te_freq = 60,
                         !.ctx.hw_idle_vrefresh = 0], 0)

EARLY_EXIT_THRESHOLD_US == 17000

\* a plausible bug: the time since the last commit is not looked at
update_idle_state_any_delta(m, delta_us) ==
  LET m1 == [m EXCEPT !.ctx.panel_idle_vrefresh = 0]
  IN IF FEAT_FRAME_AUTO \notin m1.ctx.feat THEN m1
     ELSE IF m1.ctx.idle_delay_ms = 0 /\ m1.ctx.force_changeable_te
       THEN Run(m1, <<Add("unlock_cmd_f0", 0), Add("ltps_update", 0),
                      Add("lock_cmd_f0", 0), Flush>>)
     ELSE update_refresh_mode(m1, m1.ctx.current_mode, 0)

\* lines 1025-1057 (panel-gs-ct3a.c 1023-1056); delta_us is the time since
\* the last commit
ct3a_update_idle_state(m, delta_us) ==
  LET m1 == [m EXCEPT !.ctx.panel_idle_vrefresh = 0]
  IN IF FEAT_FRAME_AUTO \notin m1.ctx.feat THEN m1
     ELSE IF delta_us < EARLY_EXIT_THRESHOLD_US THEN m1
     ELSE IF m1.ctx.idle_delay_ms = 0 /\ m1.ctx.force_changeable_te
       THEN Run(m1, <<Add("unlock_cmd_f0", 0), Add("ltps_update", 0),
                      Add("lock_cmd_f0", 0), Flush>>)
     ELSE update_refresh_mode(m1, m1.ctx.current_mode, 0)

\* lines 1059-1065 (panel-gs-ct3a.c 1058-1064)
ct3a_commit_done(m, delta_us) ==
  IF m.ctx.current_mode.is_lp_mode THEN m ELSE ct3a_update_idle_state(m, delta_us)

\* lines 1088-1100 (panel-gs-ct3a.c 1087-1099)
ct3a_set_dimming_on(m, dimming_on) ==
  LET m1 == [m EXCEPT !.ctx.dimming_on = dimming_on]
  IN IF m1.ctx.current_mode.is_lp_mode
       THEN WARN(m1, "in lp mode, skip to update", 0)
       ELSE ct3a_update_wrctrld(m1)

\* lines 1102-1106, and ct3a_mode_set / ct3b_mode_set of the other drivers
ct3a_mode_set(m, pmode, delta_ms) == change_frequency(m, pmode, delta_ms)

\* lines 1272-1283 (panel-gs-ct3a.c 1303-1314)
ct3a_panel_init(m) ==
  set_panel_feat(
    [m EXCEPT !.ctx.panel_idle_enabled = IF m.ctx.factory THEN FALSE ELSE @],
    m.ctx.current_mode, 0, TRUE)

(***************************************************************************)
(* Handlers of panel-google-ct3b.c (and of panel-gs-ct3b.c where the text  *)
(* is the same).                                                           *)
(***************************************************************************)
\* lines 673-687 (panel-gs-ct3b.c 988-1001)
ct3b_set_dimming_on(m, dimming_on) ==
  LET m1 == [m EXCEPT !.ctx.dimming_on = dimming_on]
  IN IF m1.ctx.current_mode.is_lp_mode
       THEN WARN(m1, "in lp mode, skip to update", 0)
       ELSE DCS_WRITE(m1, "wrctrld", IF m1.ctx.dimming_on THEN 40 ELSE 32)

\* exynos_panel_set_lp_mode: the framework sends the binned LP command set
exynos_panel_set_lp_mode(m, pmode) == Run(m, <<Add("lp_cmd_set", 0), Flush>>)

\* lines 689-718
ct3b_set_nolp_mode(m, pmode, delta_ms) ==
  LET m1 == Run(m,
        (IF PANEL_REV_GE(m.ctx.panel_rev, "EVT1_1") THEN <<Add("aod", 0)>> ELSE <<>>)
        \o <<Add("exit_idle_mode", 0),
             Add("wrctrld", IF m.ctx.dimming_on THEN 40 ELSE 32), Flush>>)
  IN IF ~is_panel_active(m.ctx) THEN m
     ELSE ct3b_change_frequency(
            ct3b_set_panel_feat(m1, drm_mode_vrefresh(pmode),
                                m.ctx.auto_mode_vrefresh, TRUE),
            pmode, delta_ms)

\* CT3B_DIMMING_FRAME
CT3B_DIMMING_FRAME == 32

\* lines 720-730 (panel-gs-ct3b.c 1144-1156)
ct3b_dimming_frame_setting(dimming_frame) ==
  <<Add("dimming_page", 0),
    Add("dimming_frame", IF dimming_frame = 0 THEN 1 ELSE dimming_frame), Flush>>

\* lines 810-828
ct3b_disable(m) ==
  LET m1 == Run(panel_disable(m), <<Hw("feat"), Hw("vrefresh"), Hw("idle_vrefresh")>>)
  IN Ret([m1 EXCEPT !.ctx.hw_feat = {},
                    !.ctx.hw_vrefresh = 60,
                    !.ctx.hw_idle_vrefresh = 0], 0)

\* lines 846-876 (panel-gs-ct3b.c 1296-1327)
ct3b_update_idle_state(m, delta_us) ==
  LET m1 == [m EXCEPT !.ctx.panel_idle_vrefresh = 0]
  IN IF FEAT_FRAME_AUTO \notin m1.ctx.feat THEN m1
     ELSE IF delta_us < EARLY_EXIT_THRESHOLD_US THEN m1
     ELSE IF m1.ctx.idle_delay_ms = 0 /\ m1.ctx.force_changeable_te
       THEN BUF_ADD_AND_FLUSH(m1, "ee_te", 1)
     ELSE update_refresh_mode(m1, m1.ctx.current_mode, 0)

\* lines 878-884
ct3b_commit_done(m, delta_us) ==
  IF m.ctx.current_mode.is_lp_mode THEN m ELSE ct3b_update_idle_state(m, delta_us)

\* lines 1239-1250
ct3b_panel_init(m) ==
  Run(ct3b_set_panel_feat(
        [m EXCEPT !.ctx.panel_idle_enabled = IF m.ctx.factory THEN FALSE ELSE @],
        60, 0, TRUE),
      ct3b_dimming_frame_setting(CT3B_DIMMING_FRAME))

(***************************************************************************)
(* Handlers of panel-gs-ct3b.c.  ctx.refresh_ctrl is the word the          *)
(* framework stores before it calls refresh_ctrl: min_rr is its            *)
(* MIN_REFRESH_RATE field, fi_auto its FI_AUTO bit, fi_count whether its   *)
(* FI_FRAME_COUNT field is nonzero.                                        *)
(***************************************************************************)
\* lines 909-984
gs_ct3b_set_self_refresh(m, enable, delta_ms, need_handle_idle_exit, crtc) ==
  LET m1 == Log([m EXCEPT !.ctx.panel_idle_vrefresh = IF enable THEN 1 ELSE 0],
                "notify", "panel_mode_changed", 0)
      m2 == [Run(m1, <<Add("freq_sel", 0), Add("aod_idle", 1), Add("freq_sel", 48), Flush>>)
               EXCEPT !.ctx.needs_aod_idle = FALSE]
  IN IF ~m.ctx.current_mode.is_lp_mode
       THEN ct3a_set_self_refresh(m, enable, delta_ms, need_handle_idle_exit, crtc)
     ELSE IF m.ctx.needs_aod_idle /\ PANEL_REV_GE(m.ctx.panel_rev, "EVT1_1")
       THEN Ret(m2, 0)
     ELSE Ret(m1, 0)

\* lines 1005-1051
ct3b_update_refresh_ctrl_feat(m, pmode) ==
  LET ctrl == m.ctx.refresh_ctrl
      vrefresh == drm_mode_vrefresh(pmode)
      lp_mode == pmode.is_lp_mode
      over == ctrl.min_rr /= 0 /\ ctrl.min_rr > vrefresh
      min_vrefresh == IF ctrl.min_rr = 0 THEN m.ctx.auto_mode_vrefresh
                      ELSE IF over THEN vrefresh ELSE ctrl.min_rr
      differs == ctrl.min_rr /= 0 /\ m.ctx.auto_mode_vrefresh /= min_vrefresh
      m1 == IF over THEN WARN(m, "min RR requested above the valid range", ctrl.min_rr)
            ELSE m
      m2 == IF differs /\ ~lp_mode
              THEN [m1 EXCEPT !.ctx.auto_mode_vrefresh = min_vrefresh]
            ELSE IF differs
              THEN WARN(m1, "setting minRR during AOD not supported", 0)
            ELSE m1
      m3 == [m2 EXCEPT !.ctx.feat =
               IF ctrl.fi_auto /\ min_vrefresh <= 1
                 THEN @ \cup {FEAT_FRAME_MANUAL_FI}
                 ELSE @ \ {FEAT_FRAME_MANUAL_FI}]
  IN IF lp_mode
       THEN WARN(m3, "new refresh_ctrl settings will apply during AOD exit", 0)
       ELSE gs_ct3b_set_panel_feat(m3, pmode, FALSE)

\* lines 1053-1068
ct3b_refresh_ctrl(m) ==
  LET m1 == ct3b_update_refresh_ctrl_feat(m, m.ctx.current_mode)
  IN IF m.ctx.refresh_ctrl.fi_count
       THEN BUF_ADD_AND_FLUSH(m1, "frame_insertion", 0)
       ELSE m1

\* lines 1071-1103: the commands are queued and not flushed
gs_ct3b_set_lp_mode(m, pmode) ==
  [Run(m, (IF PANEL_REV_GE(m.ctx.panel_rev, "EVT1_1")
             THEN <<Add("ee_te", 0), Add("ee", 1)>> ELSE <<>>)
          \o <<Add("freq_sel", 0), Add("aod", 1), Add("enter_idle_mode", 0),
               Hw("vrefresh"), Hw("te_freq")>>)
     EXCEPT !.ctx.hw_vrefresh = 30, !.ctx.hw_te_freq = 30,
            !.ctx.sw_te_freq = 30, !.ctx.needs_aod_idle = TRUE]

\* lines 1105-1142
gs_ct3b_set_nolp_mode(m, pmode, delta_ms) ==
  LET m1 == Run(m,
        (IF PANEL_REV_GE(m.ctx.panel_rev, "EVT1_1")
           THEN <<Add("ee_te", 1), Add("ee", 0)>> ELSE <<>>)
        \o <<Add("exit_idle_mode", 0), Add("aod", 0)>>
        \o (IF PANEL_REV_GE(m.ctx.panel_rev, "EVT1_1")
              THEN <<Add("te_page", 0)>> ELSE <<>>)
        \o <<Add("wrctrld", IF m.ctx.dimming_on THEN 40 ELSE 32), Flush>>)
  IN IF ~is_panel_active(m.ctx) THEN m
     ELSE gs_ct3b_change_frequency(
            gs_ct3b_set_panel_feat(ct3b_update_refresh_ctrl_feat(m1, pmode),
                                   pmode, TRUE),
            pmode, delta_ms)

\* lines 1251-1278
gs_ct3b_disable(m, rr) ==
  IF rr THEN Ret(m, 0)
  ELSE LET m1 == Run(panel_disable([m EXCEPT !.ctx.needs_display_on = FALSE]),
                     <<Hw("feat"), Hw("vrefresh"), Hw("te_freq"), Hw("idle_vrefresh")>>)
       IN Ret([m1 EXCEPT !.ctx.hw_feat = {},
                         !.ctx.hw_vrefresh = 60,
                         !.ctx.hw_te_freq = 60,
                         !.ctx.hw_idle_vrefresh = 0], 0)

\* lines 1329-1348
gs_ct3b_commit_done(m, delta_us) ==
  LET m1 == ct3b_update_idle_state(m, delta_us)
  IN IF m.ctx.current_mode.is_lp_mode THEN m
     ELSE IF ~is_panel_active(m1.ctx) \/ ~m1.ctx.needs_display_on THEN m1
     ELSE [DCS_WRITE(Log(m1, "wait", "flip_done", 100), "display_on", 0)
             EXCEPT !.ctx.needs_display_on = FALSE]

\* lines 1926-1948
gs_ct3b_panel_init(m, delta_ms) ==
  LET pmode == m.ctx.current_mode
      m1 == [m EXCEPT
               !.ctx.panel_idle_enabled = IF m.ctx.factory THEN FALSE ELSE @,
               !.ctx.feat = IF m.ctx.factory
                              THEN @ \cup {FEAT_FRAME_AUTO, FEAT_FRAME_MANUAL_FI}
                              ELSE @ \ {FEAT_FRAME_AUTO, FEAT_FRAME_MANUAL_FI},
               !.ctx.auto_mode_vrefresh = 0]
  IN Run(gs_ct3b_change_frequency(gs_ct3b_set_panel_feat(m1, pmode, TRUE),
                                  pmode, delta_ms),
         ct3b_dimming_frame_setting(CT3B_DIMMING_FRAME))

(***************************************************************************)
(* Power up.  The reset pulse returns the panel registers to their         *)
(* defaults; exynos_panel_init / the gs_panel reset helper then runs the   *)
(* driver's panel_init once per probed device.                             *)
(***************************************************************************)
panel_init(m, delta_ms) ==
  CASE m.ctx.variant \in {"google_ct3a", "gs_ct3a"} -> ct3a_panel_init(m)
    [] m.ctx.variant = "google_ct3b" -> ct3b_panel_init(m)
    [] m.ctx.variant \in {"gs_ct3c", "gs_ct3e"} -> m   \* no panel_init function
    [] OTHER -> gs_ct3b_panel_init(m, delta_ms)

\* exynos_panel_init
exynos_panel_init(m, delta_ms) ==
  IF m.ctx.initialized THEN m
  ELSE panel_init([m EXCEPT !.ctx.initialized = TRUE], delta_ms)

\* exynos_panel_reset, gs_panel_reset_helper
exynos_panel_reset(m, delta_ms) ==
  exynos_panel_init([m EXCEPT !.dsi.pixel_off = FALSE], delta_ms)

\* panel-google-ct3a.c lines 1189-1199
ct3a_panel_reset(m, delta_ms) ==
  exynos_panel_init(SLEEP([m EXCEPT !.dsi.pixel_off = FALSE], 10000), delta_ms)

\* panel-google-ct3a.c lines 1201-1245
ct3a_enable(m, delta_ms) ==
  LET pmode == m.ctx.current_mode
      m1 == Run(ct3a_panel_reset(m, delta_ms),
                <<Add("pps", 0), Flush, Add("dsc_enable", 1), Flush,
                  Add("exit_sleep", 0), Flush, Sleep(120000),
                  Add("init_cmd_set", 0), Flush>>)
      m2 == ct3a_change_frequency(ct3a_update_wrctrld(ct3a_update_panel_feat(m1, TRUE)),
                                  pmode, delta_ms)
  IN Ret(IF pmode.is_lp_mode THEN ct3a_set_lp_mode(m2, pmode)
         ELSE DCS_WRITE(m2, "display_on", 0), 0)

\* panel-gs-ct3a.c lines 1224-1276
gs_ct3a_enable(m, delta_ms) ==
  LET pmode == m.ctx.current_mode
      m1 == Run(exynos_panel_reset(m, delta_ms),
                <<Add("pps", 0), Flush, Add("dsc_enable", 1), Flush,
                  Add("exit_sleep", 0), Flush>>
                \o (IF PANEL_REV_LT(m.ctx.panel_rev, "EVT1")
                      THEN <<Sleep(120000)>>
                      ELSE <<Sleep(10000)>>
                           \o gs_ct3a_set_default_voltage(m.ctx, FALSE)
                           \o <<Sleep(110000)>>)
                \o <<Add("init_cmd_set", 0), Flush>>)
      m2 == gs_ct3a_change_frequency(
              ct3a_update_wrctrld(gs_ct3a_update_panel_feat(m1, TRUE)),
              pmode, delta_ms)
      m3 == IF pmode.is_lp_mode THEN gs_ct3a_set_lp_mode(m2, pmode) ELSE m2
  IN Ret(Run(DCS_WRITE(m3, "display_on", 0),
             gs_ct3a_set_default_voltage(m.ctx, TRUE)), 0)

\* panel-google-ct3b.c lines 732-763
ct3b_enable(m, delta_ms) ==
  LET pmode == m.ctx.current_mode
      m1 == Run(exynos_panel_reset(m, delta_ms), <<Add("init_cmd_set", 0), Flush>>)
      m2 == Run(ct3b_change_frequency(ct3b_update_panel_feat(m1, TRUE), pmode, delta_ms),
                ct3b_dimming_frame_setting(CT3B_DIMMING_FRAME))
      m3 == IF pmode.is_lp_mode THEN exynos_panel_set_lp_mode(m2, pmode) ELSE m2
  IN Ret(SLEEP(DCS_WRITE(m3, "display_on", 0), 200000), 0)

\* panel-gs-ct3b.c lines 1158-1188
gs_ct3b_enable(m, delta_ms) ==
  LET pmode == m.ctx.current_mode
      m1 == Run(exynos_panel_reset(m, delta_ms), <<Add("init_cmd_set", 0), Flush>>)
      m2 == Run(gs_ct3b_change_frequency(gs_ct3b_update_panel_feat(m1, TRUE),
                                         pmode, delta_ms),
                ct3b_dimming_frame_setting(CT3B_DIMMING_FRAME))
      m3 == IF pmode.is_lp_mode THEN gs_ct3b_set_lp_mode(m2, pmode) ELSE m2
  IN Ret([m3 EXCEPT !.ctx.needs_display_on = TRUE], 0)

(***************************************************************************)
(* Handlers of panel-gs-ct3c.c and panel-gs-ct3e.c.  Command tags: aod     *)
(* (0x91), 10bit (0xF2 0xCC), compression_mode, dsc_enable (0xC2, 0x9D).   *)
(***************************************************************************)
\* gs_panel_wait_for_vsync_done
gs_panel_wait_for_vsync_done(m) == Log(m, "vblank", "", 0)

\* panel-gs-ct3c.c lines 350-371
ct3c_set_op_hz(m, hz) ==
  LET pmode == m.ctx.current_mode
      vrefresh == drm_mode_vrefresh(pmode)
      m1 == [m EXCEPT !.ctx.op_hz = hz]
  IN IF vrefresh > hz \/ (hz /= 60 /\ hz /= 120)
       THEN Ret(Log(m, "err", "invalid op_hz", hz), -EINVAL)
     ELSE IF m.ctx.panel_rev = "PROTO1"
       THEN Ret(ct3c_change_frequency(m1, pmode), 0)
     ELSE Ret(m1, 0)

\* panel-gs-ct3c.c lines 536-541
ct3c_set_lp_mode(m, pmode) ==
  Run(exynos_panel_set_lp_mode(m, pmode),
      ct3c_te_change_command(drm_mode_vrefresh(m.ctx.current_mode)))

\* panel-gs-ct3c.c lines 543-576
ct3c_set_nolp_mode(m, pmode) ==
  LET m1 == Run(m, <<Add("display_off", 0), Add("unlock_cmd_f0", 0), Add("aod", 2),
                     Add("wrctrld", 32), Add("lock_cmd_f0", 0), Flush>>)
      m2 == ct3c_change_frequency(ct3a_update_wrctrld(m1), pmode)
  IN IF ~is_panel_active(m.ctx) THEN m
     ELSE Run(gs_panel_wait_for_vsync_done(m2),
              <<Sleep(1000), Add("display_on", 0), Flush>>)

\* panel-gs-ct3c.c lines 578-586
ct3c_10bit_set ==
  <<Add("unlock_cmd_f0", 0), Add("10bit", 204), Add("lock_cmd_f0", 0), Flush>>

\* panel-gs-ct3c.c lines 588-631
ct3c_enable(m) ==
  LET pmode == m.ctx.current_mode
      m1 == Run(exynos_panel_reset(m, 0),
                <<Add("exit_sleep", 0), Flush, Sleep(120000)>>
                \o ct3c_10bit_set
                \o <<Add("init_cmd_set", 0), Flush>>)
      m2 == Run(ct3c_change_frequency(m1, pmode),
                <<Add("compression_mode", 1), Flush, Add("pps", 0), Flush,
                  Add("dsc_enable", 20), Add("dsc_enable", 1)>>)
      m3 == ct3a_update_wrctrld(m2)
      m4 == IF pmode.is_lp_mode THEN exynos_panel_set_lp_mode(m3, pmode) ELSE m3
  IN Ret(DCS_WRITE(m4, "display_on", 0), 0)

\* panel-gs-ct3e.c lines 330-357
ct3e_set_nolp_mode(m, pmode) ==
  LET m1 == Run(m, <<Add("unlock_cmd_f0", 0), Add("wrctrld", 32),
                     Add("lock_cmd_f0", 0), Flush>>)
      m2 == ct3e_change_frequency(ct3a_update_wrctrld(m1), pmode)
  IN IF ~is_panel_active(m.ctx) THEN m
     ELSE SLEEP(gs_panel_wait_for_vsync_done(m2), 1000)

\* panel-gs-ct3e.c lines 359-400
ct3e_enable(m) ==
  LET pmode == m.ctx.current_mode
      m1 == Run(exynos_panel_reset(m, 0),
                <<Add("exit_sleep", 0), Flush, Sleep(120000),
                  Add("init_cmd_set", 0), Flush>>)
      m2 == Run(ct3e_change_frequency(m1, pmode),
                <<Add("compression_mode", 1), Flush, Add("pps", 0), Flush,
                  Add("dsc_enable", 20), Add("dsc_enable", 1)>>)
      m3 == ct3a_update_wrctrld(m2)
      m4 == IF pmode.is_lp_mode THEN exynos_panel_set_lp_mode(m3, pmode) ELSE m3
  IN Ret(DCS_WRITE(m4, "display_on", 0), 0)

(***************************************************************************)
(* Brightness and the pixel-off quirk.  dsi.pixel_off is the state of the  *)
(* panel: the pixel_off command (0x22) enters it, "only sending normal-on  *)
(* or resetting panel can recover to normal mode"; ctx.is_pixel_off is the *)
(* driver's record of it.  Command tags: pixel_off, enter_normal_mode, dbv *)
(* (MIPI_DCS_SET_DISPLAY_BRIGHTNESS, value: the two bytes sent),           *)
(* binned_lp.                                                              *)
(***************************************************************************)
\* swab16(br), (br & 0xFF) << 8 | br >> 8, of a u16
swab16(br) == ((br % 256) * 256) + (br \div 256)

\* brt_capability->hbm.level.max of panel-gs-ct3c.c and panel-gs-ct3e.c
HBM_LEVEL_MAX == 4095

\* exynos_dcs_set_brightness / gs_dcs_set_brightness
dcs_set_brightness(m, brightness) == Ret(DCS_WRITE(m, "dbv", brightness), 0)

\* exynos_panel_set_binned_lp / gs_panel_set_binned_lp_helper
set_binned_lp(m, br) == DCS_WRITE(m, "binned_lp", br)

\* lines 955-956 and 973-974: MIPI_DCS_ENTER_NORMAL_MODE
enter_normal_mode(m) ==
  [DCS_WRITE(m, "enter_normal_mode", 0)
     EXCEPT !.dsi.pixel_off = FALSE, !.ctx.is_pixel_off = FALSE]

\* lines 967-968: the pixel_off command
send_pixel_off(m) ==
  [DCS_WRITE(m, "pixel_off", 0)
     EXCEPT !.dsi.pixel_off = TRUE, !.ctx.is_pixel_off = TRUE]

\* a plausible bug: a nonzero level only clears the record of pixel-off
set_brightness_no_normal_mode(m, br) ==
  IF m.ctx.current_mode.is_lp_mode
    THEN Ret(set_binned_lp(IF m.ctx.is_pixel_off THEN enter_normal_mode(m) ELSE m,
                           br), 0)
  ELSE IF br = 0
    THEN Ret(IF ~m.ctx.is_pixel_off THEN send_pixel_off(m) ELSE m, 0)
  ELSE dcs_set_brightness([m EXCEPT !.ctx.is_pixel_off = FALSE], swab16(br))

\* panel-google-ct3a.c lines 945-980 (panel-gs-ct3a.c 896-931)
ct3a_set_brightness(m, br) ==
  IF m.ctx.current_mode.is_lp_mode
    THEN Ret(set_binned_lp(IF m.ctx.is_pixel_off THEN enter_normal_mode(m) ELSE m,
                           br), 0)
  ELSE IF br = 0
    THEN Ret(IF ~m.ctx.is_pixel_off THEN send_pixel_off(m) ELSE m, 0)
  ELSE dcs_set_brightness(IF m.ctx.is_pixel_off THEN enter_normal_mode(m) ELSE m,
                          swab16(br))

\* panel-gs-ct3c.c lines 388-438
ct3c_set_brightness(m, br) ==
  LET m1 == IF m.ctx.is_pixel_off THEN enter_normal_mode(m) ELSE m
  IN IF m.ctx.current_mode.is_lp_mode
       THEN Ret(set_binned_lp(m1, br), 0)
     ELSE IF br = 0
       THEN Ret(IF ~m.ctx.is_pixel_off THEN send_pixel_off(m) ELSE m, 0)
     ELSE IF br > HBM_LEVEL_MAX
       THEN dcs_set_brightness(WARN(m1, "capped to dbv", HBM_LEVEL_MAX),
                               swab16(HBM_LEVEL_MAX))
     ELSE dcs_set_brightness(m1, swab16(br))

\* panel-gs-ct3e.c lines 195-242: the text of ct3c_set_brightness
ct3e_set_brightness(m, br) == ct3c_set_brightness(m, br)

(***************************************************************************)
(* The framework around the driver (exynos_panel / gs_panel core): it      *)
(* serialises the calls, keeps current_mode and the panel state, and       *)
(* calls mode_set, set_lp_mode and set_nolp_mode on a mode change.         *)
(***************************************************************************)
Variants == {"google_ct3a", "gs_ct3a", "google_ct3b", "gs_ct3b"}

\* panel-google-ct3b.c: ct3b_modes
ct3b_modes(factory) ==
  (IF factory
     THEN {Mode("1:1", 1, 1, FALSE, FALSE, "UNSUPPORTED", FALSE),
           Mode("10:10", 10, 1, FALSE, FALSE, "UNSUPPORTED", FALSE),
           Mode("30:30", 30, 1, FALSE, FALSE, "UNSUPPORTED", FALSE)}
     ELSE {})
  \cup {Mode("60:60", 60, 1, FALSE, FALSE, "ON_SELF_REFRESH", FALSE),
        Mode("120:120", 120, 1, FALSE, FALSE, "ON_INACTIVITY", FALSE)}

\* panel-gs-ct3a.c: ct3a_modes
gs_ct3a_modes(factory) ==
  (IF factory
     THEN {Mode("1:1", 1, 1, FALSE, FALSE, "UNSUPPORTED", FALSE),
           Mode("10:10", 10, 1, FALSE, FALSE, "UNSUPPORTED", FALSE),
           Mode("30:30", 30, 1, FALSE, FALSE, "UNSUPPORTED", FALSE)}
     ELSE {Mode("120:240", 120, 2, TRUE, FALSE, "UNSUPPORTED", FALSE),
           Mode("120:120", 120, 1, TRUE, FALSE, "UNSUPPORTED", FALSE),
           Mode("60:240", 60, 4, TRUE, TRUE, "UNSUPPORTED", FALSE)})
  \cup {Mode("60:60", 60, 1, FALSE, FALSE, "UNSUPPORTED", FALSE),
        Mode("120:120", 120, 1, FALSE, FALSE, "UNSUPPORTED", FALSE)}

\* panel-gs-ct3b.c: ct3b_modes of the build that is not the factory build
gs_ct3b_modes ==
  {Mode("60:60", 60, 1, FALSE, FALSE, "UNSUPPORTED", FALSE),
   Mode("120:120", 120, 1, FALSE, FALSE, "UNSUPPORTED", FALSE),
   Mode("120:120", 120, 1, TRUE, FALSE, "UNSUPPORTED", FALSE)}

\* panel-gs-ct3c.c: ct3c_modes (panel-gs-ct3e.c: ct3e_modes)
ct3c_modes ==
  {Mode("60:60", 60, 1, FALSE, FALSE, "UNSUPPORTED", FALSE),
   Mode("120:120", 120, 1, FALSE, FALSE, "UNSUPPORTED", FALSE)}

\* the mode table of the driver and build
ModesOf(variant, factory) ==
  CASE variant = "google_ct3a" -> ct3a_modes(factory)
    [] variant = "gs_ct3a" -> gs_ct3a_modes(factory)
    [] variant = "google_ct3b" -> ct3b_modes(factory)
    [] variant \in {"gs_ct3c", "gs_ct3e"} -> ct3c_modes
    [] OTHER -> gs_ct3b_modes

Modes(c) == ModesOf(c.variant, c.factory)

\* every driver has one LP mode, 30 Hz
LpMode(c) == ct3a_lp_mode

\* panel-gs-ct3b.c does not build with PANEL_FACTORY_BUILD: ct3b_set_nolp_mode
\* (line 1135) calls ct3b_update_refresh_ctrl_feat, which that build leaves out
\* panel-gs-ct3c.c and panel-gs-ct3e.c have no PANEL_FACTORY_BUILD text
Builds(variant) ==
  IF variant \in {"gs_ct3b", "gs_ct3c", "gs_ct3e"} THEN {FALSE} ELSE BOOLEAN

\* min_vrefresh attribute values
MinVrefreshInputs == {10, 30}

OpHzInputs == {30, 60, 120}

\* time since the last commit, below and above EARLY_EXIT_THRESHOLD_US
DeltaUsInputs == {1000, 20000}

\* refresh_ctrl words
RefreshCtrlInputs ==
  {[min_rr |-> 0, fi_auto |-> FALSE, fi_count |-> FALSE],
   [min_rr |-> 0, fi_auto |-> TRUE, fi_count |-> TRUE],
   [min_rr |-> 30, fi_auto |-> FALSE, fi_count |-> FALSE],
   [min_rr |-> 120, fi_auto |-> TRUE, fi_count |-> FALSE]}

\* state of a probed device: devm_kzalloc zeroes the struct, the probe
\* function sets op_hz and the hardware-confirmed rates
Probed(variant, factory, rev, pmode, min_vrefresh, idle_enabled, delay) ==
  [variant |-> variant, factory |-> factory, panel_rev |-> rev,
   initialized |-> FALSE, enabled |-> FALSE, current_mode |-> pmode,
   op_hz |-> IF variant \in {"google_ct3a", "gs_ct3a", "gs_ct3c"} THEN 120 ELSE 0,
   min_vrefresh |-> min_vrefresh, dimming_on |-> FALSE,
   panel_idle_enabled |-> idle_enabled, idle_delay_ms |-> delay,
   panel_idle_vrefresh |-> 0, feat |-> {}, auto_mode_vrefresh |-> 0,
   sw_te_freq |-> 0, force_changeable_te |-> FALSE,
   refresh_ctrl |-> [min_rr |-> 0, fi_auto |-> FALSE, fi_count |-> FALSE],
   needs_aod_idle |-> FALSE, needs_display_on |-> FALSE,
   hw_feat |-> {},
   hw_vrefresh |-> IF variant = "google_ct3b" THEN 0 ELSE 60,
   hw_idle_vrefresh |-> 0,
   hw_te_freq |-> IF variant = "google_ct3b" THEN 0 ELSE 60,
   hw_te_option |-> "FIXED",
   is_pixel_off |-> FALSE]

NoTrace == [op |-> "probe", ev |-> <<>>, bus |-> <<>>, calls |-> <<>>, ret |-> 0]

\* the machine a handler named op starts from
Begin(op) ==
  [ctx |-> ctx, dsi |-> dsi,
   tr |-> [op |-> op, ev |-> <<>>, bus |-> <<>>, calls |-> <<>>, ret |-> 0]]

Commit(m) == ctx' = m.ctx /\ dsi' = m.dsi /\ tr' = m.tr

\* panel_get_idle_time_delta: it is read only when idle_delay_ms is set
IdleDeltas(c) == IF c.idle_delay_ms = 0 THEN {0} ELSE 0..MaxDelayMs

Init ==
  \E variant \in Variants, rev \in PanelRevs, min_vrefresh \in MinVrefreshInputs :
    \E factory \in Builds(variant) :
      \E pmode \in ModesOf(variant, factory) :
        /\ ctx = Probed(variant, factory, rev, pmode, min_vrefresh, TRUE, 0)
        /\ dsi = [buf |-> <<>>, pixel_off |-> FALSE]
        /\ tr = NoTrace

enable(m, delta_ms) ==
  CASE m.ctx.variant = "google_ct3a" -> ct3a_enable(m, delta_ms)
    [] m.ctx.variant = "gs_ct3a" -> gs_ct3a_enable(m, delta_ms)
    [] m.ctx.variant = "google_ct3b" -> ct3b_enable(m, delta_ms)
    [] m.ctx.variant = "gs_ct3c" -> ct3c_enable(m)
    [] m.ctx.variant = "gs_ct3e" -> ct3e_enable(m)
    [] OTHER -> gs_ct3b_enable(m, delta_ms)

Enable ==
  /\ ~ctx.enabled
  /\ \E delta_ms \in IdleDeltas(ctx) :
       Commit([enable(Begin("enable"), delta_ms) EXCEPT !.ctx.enabled = TRUE])

\* the panel was left on by the bootloader: panel_init without enable
Handoff ==
  /\ ~ctx.enabled /\ ~ctx.initialized
  /\ \E delta_ms \in IdleDeltas(ctx) :
       Commit([exynos_panel_init(Begin("panel_init"), delta_ms)
                 EXCEPT !.ctx.enabled = TRUE])

disable(m, rr) ==
  CASE m.ctx.variant = "google_ct3a" -> ct3a_disable(m, rr)
    [] m.ctx.variant = "gs_ct3a" -> gs_ct3a_disable(m, rr)
    [] m.ctx.variant = "google_ct3b" -> ct3b_disable(m)
    [] m.ctx.variant \in {"gs_ct3c", "gs_ct3e"} -> Ret(panel_disable(m), 0)
    [] OTHER -> gs_ct3b_disable(m, rr)

Disable ==
  /\ ctx.enabled
  /\ \E rr \in BOOLEAN : Commit(disable(Begin("disable"), rr))

ModeSet ==
  /\ ~ctx.current_mode.is_lp_mode
  /\ \E pmode \in Modes(ctx), delta_ms \in IdleDeltas(ctx) :
       LET m == Begin("mode_set")
       IN Commit([(IF is_panel_active(ctx) THEN ct3a_mode_set(m, pmode, delta_ms) ELSE m)
                    EXCEPT !.ctx.current_mode = pmode])

set_lp_mode(m, pmode) ==
  CASE m.ctx.variant = "google_ct3a" -> ct3a_set_lp_mode(m, pmode)
    [] m.ctx.variant = "gs_ct3a" -> gs_ct3a_set_lp_mode(m, pmode)
    [] m.ctx.variant = "google_ct3b" -> exynos_panel_set_lp_mode(m, pmode)
    [] m.ctx.variant = "gs_ct3c" -> ct3c_set_lp_mode(m, pmode)
    [] m.ctx.variant = "gs_ct3e" -> exynos_panel_set_lp_mode(m, pmode)
    [] OTHER -> gs_ct3b_set_lp_mode(m, pmode)

SetLpMode ==
  /\ ~ctx.current_mode.is_lp_mode
  /\ LET m == Begin("set_lp_mode")
     IN Commit([(IF is_panel_active(ctx) THEN set_lp_mode(m, LpMode(ctx)) ELSE m)
                  EXCEPT !.ctx.current_mode = LpMode(ctx)])

set_nolp_mode(m, pmode, delta_ms) ==
  CASE m.ctx.variant \in {"google_ct3a", "gs_ct3a"} -> ct3a_set_nolp_mode(m, pmode, delta_ms)
    [] m.ctx.variant = "google_ct3b" -> ct3b_set_nolp_mode(m, pmode, delta_ms)
    [] m.ctx.variant = "gs_ct3c" -> ct3c_set_nolp_mode(m, pmode)
    [] m.ctx.variant = "gs_ct3e" -> ct3e_set_nolp_mode(m, pmode)
    [] OTHER -> gs_ct3b_set_nolp_mode(m, pmode, delta_ms)

SetNoLpMode ==
  /\ ctx.current_mode.is_lp_mode
  /\ \E pmode \in Modes(ctx), delta_ms \in IdleDeltas(ctx) :
       Commit([set_nolp_mode(Begin("set_nolp_mode"), pmode, delta_ms)
                 EXCEPT !.ctx.current_mode = pmode])

set_self_refresh(m, enable_sr, delta_ms, need, crtc) ==
  IF m.ctx.variant = "gs_ct3b"
    THEN gs_ct3b_set_self_refresh(m, enable_sr, delta_ms, need, crtc)
    ELSE ct3a_set_self_refresh(m, enable_sr, delta_ms, need, crtc)

SetSelfRefresh ==
  /\ ctx.enabled
  /\ \E enable_sr \in BOOLEAN, delta_ms \in IdleDeltas(ctx), need \in BOOLEAN,
        crtc \in BOOLEAN :
       Commit(set_self_refresh(Log(Begin("set_self_refresh"), "arg", "enable",
                                   IF enable_sr THEN 1 ELSE 0),
                               enable_sr, delta_ms, need, crtc))

commit_done(m, delta_us) ==
  CASE m.ctx.variant \in {"google_ct3a", "gs_ct3a"} -> ct3a_commit_done(m, delta_us)
    [] m.ctx.variant = "google_ct3b" -> ct3b_commit_done(m, delta_us)
    [] OTHER -> gs_ct3b_commit_done(m, delta_us)

CommitDone ==
  /\ ctx.enabled
  /\ \E delta_us \in DeltaUsInputs :
       Commit(commit_done(Log(Begin("commit_done"), "arg", "delta_us", delta_us),
                          delta_us))

set_op_hz(m, hz, crtc) ==
  IF m.ctx.variant = "gs_ct3c" THEN ct3c_set_op_hz(m, hz)
  ELSE ct3a_set_op_hz(m, hz, crtc)

\* set_op_hz is an operation of the ct3a drivers and of panel-gs-ct3c.c;
\* the first event of the trace is the request
SetOpHz ==
  /\ ctx.variant \in {"google_ct3a", "gs_ct3a", "gs_ct3c"}
  /\ \E hz \in OpHzInputs, crtc \in BOOLEAN :
       Commit(set_op_hz(Log(Begin("set_op_hz"), "arg", "hz", hz), hz, crtc))

SetDimmingOn ==
  /\ ctx.enabled
  /\ \E on \in BOOLEAN :
       Commit(IF ctx.variant \in {"google_ct3a", "gs_ct3a"}
                THEN ct3a_set_dimming_on(Begin("set_dimming_on"), on)
                ELSE ct3b_set_dimming_on(Begin("set_dimming_on"), on))

\* refresh_ctrl is an operation of panel-google-ct3a.c and panel-gs-ct3b.c
RefreshCtrl ==
  /\ ctx.enabled
  /\ \/ /\ ctx.variant = "google_ct3a"
        /\ Len(dsi.buf) < MaxPending
        /\ \E fi \in BOOLEAN : Commit(ct3a_refresh_ctrl(Begin("refresh_ctrl"), fi))
     \/ /\ ctx.variant = "gs_ct3b"
        /\ \E ctrl \in RefreshCtrlInputs :
             Commit(ct3b_refresh_ctrl(
               [Begin("refresh_ctrl") EXCEPT !.ctx.refresh_ctrl = ctrl]))

\* the min_vrefresh attribute of the framework; it is read by
\* get_min_idle_vrefresh, whose result is used in modes with an idle mode
SetMinVrefresh ==
  /\ \E pmode \in Modes(ctx) : pmode.idle_mode /= "UNSUPPORTED"
  /\ \E v \in MinVrefreshInputs :
       Commit([Begin("min_vrefresh") EXCEPT !.ctx.min_vrefresh = v])

(***************************************************************************)
(* Brightness: the drivers with the pixel-off quirk, driven through power  *)
(* cycles, mode changes, LP entry and exit, op rate and brightness         *)
(* requests.                                                               *)
(***************************************************************************)
VariantsB == {"google_ct3a", "gs_ct3a", "gs_ct3c", "gs_ct3e"}

\* brightness levels requested: the low levels and one above the cap
BrightnessInputs == (0..MaxBrightness) \cup {256, HBM_LEVEL_MAX + 1}

InitB ==
  \E variant \in VariantsB, rev \in PanelRevs :
    \E factory \in Builds(variant) :
      \E pmode \in ModesOf(variant, factory) :
        /\ ctx = Probed(variant, factory, rev, pmode, 10, TRUE, 0)
        /\ dsi = [buf |-> <<>>, pixel_off |-> FALSE]
        /\ tr = NoTrace

set_brightness(m, br) ==
  CASE m.ctx.variant \in {"google_ct3a", "gs_ct3a"} -> ct3a_set_brightness(m, br)
    [] m.ctx.variant = "gs_ct3c" -> ct3c_set_brightness(m, br)
    [] OTHER -> ct3e_set_brightness(m, br)

\* the backlight update of an active panel; the first two events of the
\* trace are the level requested and the state of the panel on entry
SetBrightness ==
  /\ ctx.enabled
  /\ \E br \in BrightnessInputs :
       Commit(set_brightness(
         Log(Log(Begin("set_brightness"), "arg", "br", br),
             "arg", "panel_pixel_off", IF dsi.pixel_off THEN 1 ELSE 0), br))

NextB ==
  \/ Enable \/ Disable \/ ModeSet \/ SetLpMode \/ SetNoLpMode \/ SetOpHz
  \/ SetBrightness

SpecB == InitB /\ [][NextB]_vars

(***************************************************************************)
(* get_min_idle_vrefresh on its own: the inputs are drawn by InitIdle, the *)
(* action applies the function to the mode of the state.                   *)
(***************************************************************************)
\* ctx->min_vrefresh: an int the framework stores unchecked
MinVrefreshAll == {-1, 0, 1, 5, 10, 20, 30, 31, 60, 120}

InitIdle ==
  \E variant \in Variants, min_vrefresh \in MinVrefreshAll,
     idle_enabled \in BOOLEAN, dimming_on \in BOOLEAN, delay \in 0..MaxDelayMs :
    \E factory \in Builds(variant) :
      \E pmode \in ModesOf(variant, factory) \cup {ct3a_lp_mode} :
        /\ ctx = [Probed(variant, factory, "PROTO1", pmode, min_vrefresh,
                         idle_enabled, delay) EXCEPT !.dimming_on = dimming_on]
        /\ dsi = [buf |-> <<>>, pixel_off |-> FALSE]
        /\ tr = NoTrace

\* the first event of the trace is the vrefresh of the mode passed
GetMinIdleVrefresh ==
  \E delta_ms \in 0..MaxDelayMs :
    /\ tr' = Ret(Log(Begin("get_min_idle_vrefresh"), "arg", "vrefresh",
                     drm_mode_vrefresh(ctx.current_mode)),
                 ct3a_get_min_idle_vrefresh(ctx, ctx.current_mode, delta_ms)).tr
    /\ UNCHANGED <<ctx, dsi>>

NextIdle == GetMinIdleVrefresh

SpecIdle == InitIdle /\ [][NextIdle]_vars

(***************************************************************************)
(* get_panel_rev on its own: InitRev is a probed device whose id was not   *)
(* read yet, the action decodes an id.  panel-google-ct3a.c,               *)
(* panel-gs-ct3b.c and panel-gs-ct3c.c hold the three decoders; the other  *)
(* files repeat one of them.                                               *)
(***************************************************************************)
VariantsRev == {"google_ct3a", "gs_ct3b", "gs_ct3c"}

\* ids: every value of the byte that is decoded, with the other bits (up
\* to bit 30) all clear or all set
PanelIds == {bc * 256 + rest : bc \in 0..255, rest \in {0, 2147418367}}

\* (id & 0xFF00) >> 8
build_code(id) == (id \div 256) % 256

\* (build_code & 0xE0) >> 3
panel_rev_main(id) == (build_code(id) \div 32) * 4

\* (build_code & 0x0C) >> 2
panel_rev_sub(id) == (build_code(id) \div 4) % 4

\* main | sub: the two fields share no bit
panel_rev_code(id) == panel_rev_main(id) + panel_rev_sub(id)

\* the default branch of the switch, and a recognised code
set_panel_rev(m, rev, r) ==
  IF r = "default"
    THEN [WARN(m, "unknown rev from panel, default to latest", rev)
            EXCEPT !.ctx.panel_rev = "LATEST"]
    ELSE [m EXCEPT !.ctx.panel_rev = r]

\* a plausible bug: two case labels share a revision
get_panel_rev_shared_label(m, id) ==
  LET rev == panel_rev_code(id)
  IN set_panel_rev(m, rev,
       CASE rev = 0 -> "PROTO1" [] rev = 1 -> "PROTO1_1" [] rev = 2 -> "PROTO1_2"
         [] rev = 12 -> "EVT1" [] rev = 14 -> "EVT1_1" [] rev = 15 -> "EVT1_1"
         [] rev = 16 -> "DVT1" [] rev = 17 -> "DVT1_1" [] rev = 20 -> "PVT"
         [] OTHER -> "default")

\* panel-google-ct3a.c lines 1144-1187 (panel-gs-ct3a.c 1141-1184)
ct3a_get_panel_rev(m, id) ==
  LET rev == panel_rev_code(id)
  IN set_panel_rev(m, rev,
       CASE rev = 0 -> "PROTO1" [] rev = 1 -> "PROTO1_1" [] rev = 2 -> "PROTO1_2"
         [] rev = 12 -> "EVT1" [] rev = 14 -> "EVT1_1" [] rev = 15 -> "EVT1_2"
         [] rev = 16 -> "DVT1" [] rev = 17 -> "DVT1_1" [] rev = 20 -> "PVT"
         [] OTHER -> "default")

\* panel-gs-ct3b.c lines 1555-1591
ct3b_get_panel_rev(m, id) ==
  LET rev == panel_rev_code(id)
  IN set_panel_rev(m, rev,
       CASE rev = 4 -> "EVT1" [] rev = 5 -> "EVT1_1" [] rev = 6 -> "EVT1_2"
         [] rev = 8 -> "DVT1" [] rev = 9 -> "DVT1_1" [] rev = 16 -> "PVT"
         [] OTHER -> "default")

\* panel-gs-ct3c.c lines 521-534: rev is a u8, and the revision is chosen
\* by gs_panel_get_panel_rev of the panel framework from the rev passed
ct3c_get_panel_rev(m, id) ==
  LET rev == panel_rev_code(id)
  IN Log(m, "call", "gs_panel_get_panel_rev",
         IF panel_rev_main(id) = 0 THEN (rev + 255) % 256 ELSE rev)

get_panel_rev(m, id) ==
  CASE m.ctx.variant = "google_ct3a" -> ct3a_get_panel_rev(m, id)
    [] m.ctx.variant = "gs_ct3b" -> ct3b_get_panel_rev(m, id)
    [] OTHER -> ct3c_get_panel_rev(m, id)

\* panel_rev is 0, no revision, until the id is decoded
InitRev ==
  \E variant \in VariantsRev :
    \E pmode \in ModesOf(variant, FALSE) :
      /\ ctx = Probed(variant, FALSE, "NONE", pmode, 10, TRUE, 0)
      /\ dsi = [buf |-> <<>>, pixel_off |-> FALSE]
      /\ tr = NoTrace

\* the first event of the trace is the id decoded
GetPanelRev ==
  \E id \in PanelIds :
    LET m == get_panel_rev(Log(Begin("get_panel_rev"), "arg", "id", id), id)
    IN /\ ctx' = m.ctx
       /\ tr' = m.tr
       /\ UNCHANGED dsi

NextRev == GetPanelRev

SpecRev == InitRev /\ [][NextRev]_vars

(***************************************************************************)
(* panel-gs-ct3d.c: enable with its check of register 0xBE, disable and    *)
(* mode_set.  What each mipi_dsi_dcs_read returns is an input of enable,   *)
(* and so is ctx->hbm_mode (set_hbm_mode is not part of the model).        *)
(* Command tags: beh_page (0xF0 page 4), spi_speed (0xC2, value: the first *)
(* byte), spi_speed2 (0xC2 on page 8), enter_sleep, irc (the commands of   *)
(* ct3d_update_irc, value: the vrefresh).                                  *)
(***************************************************************************)
CT3D_DIMMING_FRAME == 32

CT3D_READ_BEH_RETRY_COUNT == 3

MIPI_DSI_FREQ_MBPS_DEFAULT == 865

MIPI_DSI_FREQ_MBPS_ALTERNATIVE == 756

\* -EIO, -EAGAIN
EIO == 5

EAGAIN == 11

\* what ct3d_read_beh can return: the bytes match, the read came back
\* short, the bytes do not match
ReadBehOutcomes == {0, -EIO, -EAGAIN}

\* one outcome for each read an enable can make
ReadBehInputs == [1..(CT3D_READ_BEH_RETRY_COUNT + 1) -> ReadBehOutcomes]

\* panel-gs-ct3d.c lines 329-353
ct3d_change_frequency(m, pmode, hbm) ==
  LET vrefresh == drm_mode_vrefresh(pmode)
  IN IF vrefresh /= 60 /\ vrefresh /= 120 THEN m
     ELSE IF hbm THEN Run(m, <<Add("irc", vrefresh), Flush>>)
     ELSE IF vrefresh = 120
       THEN Run(m, <<Add("freq_sel", 0), Add("gamma", 0), Flush>>)
     ELSE Run(m, <<Add("freq_sel", 2), Add("page", 0), Add("freq", 16), Flush>>)

\* panel-gs-ct3d.c lines 415-435; outcome is what the read and the
\* comparison of the bytes give
ct3d_read_beh(m, outcome) ==
  LET m1 == Log(DCS_WRITE(m, "beh_page", 4), "read", "beh", outcome)
  IN IF outcome = -EIO
       THEN Ret(WARN(m1, "Unable to read BEh values", 0), -EIO)
       ELSE Ret(m1, outcome)

\* panel-gs-ct3d.c lines 437-445
ct3d_change_spi_speed(m, speed) ==
  Run(m, <<Add("beh_page", 4), Add("spi_speed", IF speed = 23 THEN 20 ELSE 18),
           Add("beh_page", 8), Add("spi_speed2", IF speed = 23 THEN 0 ELSE 51),
           Flush>>)

\* GS_DCS_WRITE_DELAY_CMD(dev, 120, ...) of lines 473-474
ct3d_sleep_cycle ==
  <<Add("enter_sleep", 0), Flush, Sleep(120000),
    Add("exit_sleep", 0), Flush, Sleep(120000)>>

\* a plausible bug: the loop does not look at what the read returned
RECURSIVE read_beh_retry_to_the_count(_, _, _, _)
read_beh_retry_to_the_count(m, retry, ret, reads) ==
  IF retry < CT3D_READ_BEH_RETRY_COUNT
    THEN LET m1 == ct3d_read_beh(Run(m, ct3d_sleep_cycle), reads[retry + 2])
         IN read_beh_retry_to_the_count(m1, retry + 1, m1.tr.ret, reads)
    ELSE [m |-> Ret(m, ret), retry |-> retry]

\* panel-gs-ct3d.c lines 472-476: the for loop, entered with retry and ret;
\* it gives the machine and the value of retry after the loop
RECURSIVE ct3d_read_beh_retry(_, _, _, _)
ct3d_read_beh_retry(m, retry, ret, reads) ==
  IF retry < CT3D_READ_BEH_RETRY_COUNT /\ ret /= 0
    THEN LET m1 == ct3d_read_beh(Run(m, ct3d_sleep_cycle), reads[retry + 2])
         IN ct3d_read_beh_retry(m1, retry + 1, m1.tr.ret, reads)
    ELSE [m |-> Ret(m, ret), retry |-> retry]

\* panel-gs-ct3d.c lines 843-846, run by gs_panel_reset_helper once
ct3d_panel_init(m) == Run(m, ct3b_dimming_frame_setting(CT3D_DIMMING_FRAME))

\* panel-gs-ct3d.c lines 447-496; current_mode is set
ct3d_enable(m, reads, hbm) ==
  LET pmode == m.ctx.current_mode
      m0 == IF m.ctx.initialized THEN m
            ELSE ct3d_panel_init([m EXCEPT !.ctx.initialized = TRUE])
      m1 == Run(m0, <<Add("init_cmd_set", 0), Flush>>)
      m2 == ct3d_read_beh(ct3d_change_frequency(m1, pmode, hbm), reads[1])
      w == ct3d_change_spi_speed(WARN(m2, "Reading BEh failed at first try", 0), 23)
      l == ct3d_read_beh_retry(w, 0, 1, reads)
      m3 == IF m2.tr.ret = 0 THEN m2
            ELSE ct3d_change_spi_speed(
                   IF l.retry = CT3D_READ_BEH_RETRY_COUNT
                     THEN WARN(l.m, "Failed to read BEh", l.retry)
                     ELSE Log(l.m, "info", "Success to read BEh after retry", l.retry),
                   34)
      m4 == Run(m3, ct3b_dimming_frame_setting(CT3D_DIMMING_FRAME))
      m5 == IF pmode.is_lp_mode THEN exynos_panel_set_lp_mode(m4, pmode) ELSE m4
  IN Ret([DCS_WRITE(m5, "display_on", 0)
            EXCEPT !.ctx.dsi_hs_clk_mbps = MIPI_DSI_FREQ_MBPS_DEFAULT], 0)

\* ct3d_update_ffc may have left either clock
InitD ==
  \E pmode \in ct3c_modes \cup {ct3a_lp_mode},
     clk \in {MIPI_DSI_FREQ_MBPS_DEFAULT, MIPI_DSI_FREQ_MBPS_ALTERNATIVE} :
    /\ ctx = Probed("gs_ct3d", FALSE, "LATEST", pmode, 10, TRUE, 0)
               @@ [dsi_hs_clk_mbps |-> clk]
    /\ dsi = [buf |-> <<>>, pixel_off |-> FALSE]
    /\ tr = NoTrace

Ct3dEnable ==
  /\ ~ctx.enabled
  /\ \E reads \in ReadBehInputs, hbm \in BOOLEAN :
       Commit([ct3d_enable(Begin("enable"), reads, hbm) EXCEPT !.ctx.enabled = TRUE])

\* panel-gs-ct3d.c lines 498-511
Ct3dDisable ==
  /\ ctx.enabled
  /\ Commit(Ret(panel_disable(Begin("disable")), 0))

\* panel-gs-ct3d.c lines 672-676
Ct3dModeSet ==
  /\ ~ctx.current_mode.is_lp_mode
  /\ \E pmode \in ct3c_modes, hbm \in BOOLEAN :
       LET m == Begin("mode_set")
       IN Commit([(IF is_panel_active(ctx) THEN ct3d_change_frequency(m, pmode, hbm)
                   ELSE m)
                    EXCEPT !.ctx.current_mode = pmode])

NextD == Ct3dEnable \/ Ct3dDisable \/ Ct3dModeSet

SpecD == InitD /\ [][NextD]_vars

(***************************************************************************)
(* The thermal zone callback.  spanel_get_brightness runs on the thermal   *)
(* core's thread, concurrently with the serialized DRM entry points, so    *)
(* it is modelled one statement at a time: ctx.tz holds its position and   *)
(* its locals, ctx.bl_state_lock the holder of base.bl_state_lock.  The    *)
(* other holders of that mutex are the backlight writers outside these     *)
(* files, modelled as the environment.                                     *)
(***************************************************************************)
VariantsT == {"google_ct3a", "gs_ct3a", "google_ct3b", "gs_ct3b"}

\* the thermal thread is outside the callback
TzIdle(tzd, spanel, temp, ret) ==
  [pc |-> "idle", tzd |-> tzd, spanel |-> spanel, temp |-> temp, ret |-> ret]

\* a mutation of spanel_get_brightness that reads without taking the mutex
get_brightness_without_lock(c) ==
  CASE c.tz.pc = "entry" ->
         IF c.tz.tzd /\ c.tz.spanel /\ c.bl
           THEN [c EXCEPT !.tz.pc = "read"]
           ELSE [c EXCEPT !.tz.pc = "idle", !.tz.ret = -EINVAL]
    [] c.tz.pc = "read" ->
         [c EXCEPT !.tz.temp = IF c.bl_props.standby THEN 0
                               ELSE c.bl_props.brightness,
                   !.tz.pc = "idle", !.tz.ret = 0]
    [] OTHER -> c

\* spanel_get_brightness, one statement per step:
\*   entry  : the NULL tests; a NULL tzd, devdata or bl returns -EINVAL
\*   lock   : mutex_lock(&spanel->base.bl_state_lock)
\*   read   : *temp = standby ? 0 : brightness
\*   unlock : mutex_unlock, then return 0
spanel_get_brightness(c) ==
  CASE c.tz.pc = "entry" ->
         IF ~c.tz.tzd THEN [c EXCEPT !.tz.pc = "idle", !.tz.ret = -EINVAL]
         ELSE IF c.tz.spanel /\ c.bl THEN [c EXCEPT !.tz.pc = "lock"]
         ELSE [c EXCEPT !.tz.pc = "idle", !.tz.ret = -EINVAL]
    [] c.tz.pc = "lock" ->
         [c EXCEPT !.bl_state_lock = "thermal", !.tz.pc = "read"]
    [] c.tz.pc = "read" ->
         [c EXCEPT !.tz.temp = IF c.bl_props.standby THEN 0
                               ELSE c.bl_props.brightness,
                   !.tz.pc = "unlock"]
    [] c.tz.pc = "unlock" ->
         [c EXCEPT !.bl_state_lock = "free", !.tz.pc = "idle", !.tz.ret = 0]
    [] OTHER -> c

InitT ==
  \E variant \in VariantsT, bl \in BOOLEAN, standby \in BOOLEAN,
     brightness \in 0..MaxBrightness :
    /\ ctx = [Probed(variant, FALSE, "LATEST", ct3a_lp_mode, 10, TRUE, 0)
                EXCEPT !.enabled = TRUE, !.initialized = TRUE]
               @@ [bl |-> bl, bl_state_lock |-> "free",
                   bl_props |-> [standby |-> standby, brightness |-> brightness],
                   tz |-> TzIdle(TRUE, TRUE, -1, 0)]
    /\ dsi = [buf |-> <<>>, pixel_off |-> FALSE]
    /\ tr = NoTrace

\* the thermal core calls get_temp; temp -1 stands for the caller's own value
GetTempCall ==
  /\ ctx.tz.pc = "idle"
  /\ \E tzd \in BOOLEAN, spanel \in BOOLEAN :
       ctx' = [ctx EXCEPT !.tz = [pc |-> "entry", tzd |-> tzd, spanel |-> spanel,
                                  temp |-> -1, ret |-> 0]]
  /\ UNCHANGED <<dsi, tr>>

\* the next statement of the callback; mutex_lock blocks while the mutex is held
GetTempStep ==
  /\ ctx.tz.pc # "idle"
  /\ ctx.tz.pc = "lock" => ctx.bl_state_lock = "free"
  /\ ctx' = spanel_get_brightness(ctx)
  /\ UNCHANGED <<dsi, tr>>

\* a backlight writer outside these files takes the mutex, ...
BlLock ==
  /\ ctx.bl /\ ctx.bl_state_lock = "free"
  /\ ctx' = [ctx EXCEPT !.bl_state_lock = "writer"]
  /\ UNCHANGED <<dsi, tr>>

\* ... updates the backlight properties, ...
BlUpdate ==
  /\ ctx.bl_state_lock = "writer"
  /\ \E standby \in BOOLEAN, brightness \in 0..MaxBrightness :
       ctx' = [ctx EXCEPT !.bl_props = [standby |-> standby,
                                        brightness |-> brightness]]
  /\ UNCHANGED <<dsi, tr>>

\* ... and releases it
BlUnlock ==
  /\ ctx.bl_state_lock = "writer"
  /\ ctx' = [ctx EXCEPT !.bl_state_lock = "free"]
  /\ UNCHANGED <<dsi, tr>>

\* SetDimmingOn stands for the serialized DRM entry points
NextT ==
  \/ GetTempCall \/ GetTempStep \/ BlLock \/ BlUpdate \/ BlUnlock
  \/ SetDimmingOn

SpecT == InitT /\ [][NextT]_vars

(***************************************************************************)
(* The one-vblank wait, one statement at a time.  ctx.wv holds the         *)
(* position and the locals of ct3a_wait_one_vblank / ct3b_wait_one_vblank, *)
(* ctx.vblank_count the CRTC's vblank counter.  drm_crtc_wait_one_vblank   *)
(* belongs to the DRM core: it returns to the driver once the counter has  *)
(* moved from the value it sampled.  The driver's statements are run       *)
(* fairly; nothing makes a vblank arrive.                                  *)
(***************************************************************************)
VblankCounts == 4

\* a mutation of wait_one_vblank_step that waits for the vblank although
\* drm_crtc_vblank_get failed
wait_step_waits_without_reference(m) ==
  LET w == m.ctx.wv
  IN CASE w.pc = "entry" ->
            IF w.crtc
              THEN [m EXCEPT !.ctx.wv.pc = "wait",
                             !.ctx.wv.last = m.ctx.vblank_count]
              ELSE [SLEEP(m, 8350) EXCEPT !.ctx.wv.pc = "idle"]
       [] w.pc = "put" -> [m EXCEPT !.ctx.wv.pc = "idle"]
       [] OTHER -> m

\* lines 635-656 by position:
\*   entry : crtc NULL or drm_crtc_vblank_get failing -> usleep_range and
\*           return; a reference obtained -> drm_crtc_wait_one_vblank
\*   put   : drm_crtc_vblank_put and return
wait_one_vblank_step(m) ==
  LET w == m.ctx.wv
  IN CASE w.pc = "entry" ->
            IF w.crtc
              THEN IF w.get_ret = 0
                     THEN [m EXCEPT !.ctx.wv.pc = "wait",
                                    !.ctx.wv.last = m.ctx.vblank_count]
                     ELSE [SLEEP(m, 8350) EXCEPT !.ctx.wv.pc = "idle"]
              ELSE [SLEEP(m, 8350) EXCEPT !.ctx.wv.pc = "idle"]
       [] w.pc = "put" -> [m EXCEPT !.ctx.wv.pc = "idle"]
       [] OTHER -> m

InitV ==
  \E variant \in VariantsT, count \in 0..(VblankCounts - 1) :
    /\ ctx = Probed(variant, FALSE, "LATEST", ct3a_lp_mode, 10, TRUE, 0)
               @@ [vblank_count |-> count,
                   wv |-> [pc |-> "idle", crtc |-> FALSE, get_ret |-> 0,
                           last |-> 0]]
    /\ dsi = [buf |-> <<>>, pixel_off |-> FALSE]
    /\ tr = NoTrace

\* a caller (set_self_refresh, set_op_hz) reaches the wait
WaitCall ==
  /\ ctx.wv.pc = "idle"
  /\ \E crtc \in BOOLEAN, get_ret \in {0, -EINVAL} :
       Commit([Begin("wait_one_vblank")
                 EXCEPT !.ctx.wv = [pc |-> "entry", crtc |-> crtc,
                                    get_ret |-> IF crtc THEN get_ret ELSE 0,
                                    last |-> 0]])

\* the driver's next statement
WaitStep ==
  /\ ctx.wv.pc \in {"entry", "put"}
  /\ Commit(wait_one_vblank_step([ctx |-> ctx, dsi |-> dsi, tr |-> tr]))

\* drm_crtc_wait_one_vblank returns after a vblank
DrmWaitReturns ==
  /\ ctx.wv.pc = "wait"
  /\ ctx.vblank_count # ctx.wv.last
  /\ Commit([Log([ctx |-> ctx, dsi |-> dsi, tr |-> tr], "vblank", "", 0)
               EXCEPT !.ctx.wv.pc = "put"])

\* the display controller signals a vblank
Vblank ==
  /\ ctx' = [ctx EXCEPT !.vblank_count = (@ + 1) % VblankCounts]
  /\ UNCHANGED <<dsi, tr>>

NextV == WaitCall \/ WaitStep \/ DrmWaitReturns \/ Vblank

SpecV == InitV /\ [][NextV]_vars /\ WF_vars(WaitStep)

(***************************************************************************)
(* set_hbm_mode of the ct3a drivers, with the operations around it.        *)
(* ctx.hbm_mode is ctx->hbm_mode.                                          *)
(***************************************************************************)
HbmModes == {"HBM_OFF", "HBM_ON_IRC_ON", "HBM_ON_IRC_OFF"}

IS_HBM_ON_IRC_OFF(mode) == mode = "HBM_ON_IRC_OFF"

\* panel-google-ct3a.c lines 1067-1086 (panel-gs-ct3a.c 1066-1085): the
\* sequence is opened and closed with unlock_cmd_f0
ct3a_set_hbm_mode(m, mode) ==
  LET irc_update == IS_HBM_ON_IRC_OFF(m.ctx.hbm_mode) /= IS_HBM_ON_IRC_OFF(mode)
      m1 == [m EXCEPT !.ctx.hbm_mode = mode]
  IN IF mode = m.ctx.hbm_mode THEN m
     ELSE IF PANEL_REV_GE(m.ctx.panel_rev, "PROTO1_2") /\ irc_update
       THEN Run(m1, <<Add("unlock_cmd_f0", 0),
                      Add("irc", IF IS_HBM_ON_IRC_OFF(mode) THEN 11 ELSE 43),
                      Add("unlock_cmd_f0", 0), Flush>>)
     ELSE m1

InitH ==
  \E variant \in {"google_ct3a", "gs_ct3a"}, rev \in PanelRevs :
    \E pmode \in ModesOf(variant, FALSE) :
      /\ ctx = Probed(variant, FALSE, rev, pmode, 10, TRUE, 0)
                 @@ [hbm_mode |-> "HBM_OFF"]
      /\ dsi = [buf |-> <<>>, pixel_off |-> FALSE]
      /\ tr = NoTrace

\* set_hbm_mode is an operation of the ct3a drivers here
SetHbmMode ==
  /\ ctx.variant \in {"google_ct3a", "gs_ct3a"}
  /\ \E mode \in HbmModes :
       Commit(ct3a_set_hbm_mode(Begin("set_hbm_mode"), mode))

NextH ==
  \/ Enable \/ Disable \/ SetLpMode \/ SetNoLpMode \/ CommitDone
  \/ SetHbmMode

SpecH == InitH /\ [][NextH]_vars

Next ==
  \/ Enable \/ Handoff \/ Disable \/ ModeSet \/ SetLpMode \/ SetNoLpMode
  \/ SetSelfRefresh \/ CommitDone \/ SetOpHz \/ SetDimmingOn \/ RefreshCtrl
  \/ SetMinVrefresh

Spec == Init /\ [][Next]_vars

(***************************************************************************)
(* Properties.  Calls are the set_panel_feat calls of the last handler.    *)
(***************************************************************************)
Calls == {tr.calls[i] : i \in 1..Len(tr.calls)}

\* the commands a call queued, in program order
CallCmds(k) ==
  SelectSeq(SubSeq(tr.ev, k.first, k.last), LAMBDA e : e.k = "add")

\* the driver keeps a TE frequency (panel-google-ct3b.c does not)
HasTe == ctx.variant /= "google_ct3b"

\* C1 as stated: when a set_panel_feat call with enforce returns, the
\* hardware-confirmed feature bits, vrefresh, idle vrefresh and TE frequency
\* equal the software-desired ones (the feature bits of the driver, the
\* vrefresh and TE frequency of the mode, the idle vrefresh asked for).
C1_ForcedRewriteEqualsDesired ==
  \A k \in Calls :
    k.enforce =>
      /\ k.after.hw_feat = k.after.feat
      /\ k.after.hw_vrefresh = k.req.vrefresh
      /\ k.after.hw_idle_vrefresh = k.req.idle_vrefresh
      /\ (HasTe => k.after.hw_te_freq = k.req.te_freq)

\* the vrefresh and idle vrefresh a call programs: manual 1 Hz for a VRR mode
\* of panel-google-ct3a.c and for every mode of panel-gs-ct3a.c outside the
\* factory build; in panel-gs-ct3b.c without auto frame insertion the idle
\* vrefresh asked for (else 1 Hz) as the manual rate; else what was asked for
ProgrammedRates(k) ==
  CASE ctx.variant = "google_ct3a" /\ k.req.vrr -> <<1, 0>>
    [] ctx.variant = "gs_ct3a" /\ ~ctx.factory -> <<1, 0>>
    [] ctx.variant = "gs_ct3b" /\ FEAT_FRAME_AUTO \notin k.before.feat ->
         <<IF k.req.idle_vrefresh /= 0 THEN k.req.idle_vrefresh ELSE 1, 0>>
    [] OTHER -> <<k.req.vrefresh, k.req.idle_vrefresh>>

\* C1 amended: when a set_panel_feat call with enforce returns, the
\* hardware-confirmed feature bits equal the software-desired feature bits,
\* the hardware-confirmed TE frequency is the TE frequency of the mode, and
\* the hardware-confirmed vrefresh and idle vrefresh are the rates the call
\* programs (ProgrammedRates), which are the rates asked for only where no
\* override applies.
C1_ForcedRewriteEqualsProgrammed ==
  \A k \in Calls :
    k.enforce =>
      /\ k.after.hw_feat = k.after.feat
      /\ k.after.hw_vrefresh = ProgrammedRates(k)[1]
      /\ k.after.hw_idle_vrefresh = ProgrammedRates(k)[2]
      /\ (HasTe => k.after.hw_te_freq = k.req.te_freq)

\* a forced call for a 120 Hz VRR mode left hardware-confirmed vrefresh 1
C1_Witness ==
  \E k \in Calls :
    /\ k.enforce /\ k.req.vrr /\ k.req.vrefresh = 120
    /\ k.after.hw_vrefresh = 1 /\ k.after.hw_feat = k.after.feat

\* C2: a hardware-confirmed field is written only when no command is left
\* unflushed in the buffer, and a set_panel_feat call queues no command
\* after it has written a hardware-confirmed field.
C2_HwWrittenAfterFlush ==
  /\ \A i \in 1..Len(tr.ev) : tr.ev[i].k = "hw" => tr.ev[i].v = 0
  /\ \A k \in Calls :
       \A i, j \in k.first..k.last :
         (i < j /\ tr.ev[i].k = "hw") => tr.ev[j].k /= "add"

\* C3: a nonzero idle vrefresh, software-desired or hardware-confirmed, is
\* below the vrefresh of the current mode and is one of 1, 10, 30, 60.
C3_IdleVrefreshBelowMode ==
  \A v \in {ctx.auto_mode_vrefresh, ctx.hw_idle_vrefresh} :
    v /= 0 => (v < drm_mode_vrefresh(ctx.current_mode) /\ v \in {1, 10, 30, 60})

\* C8: no handler reaches the branch of set_panel_feat that warns of an
\* unsupported frequency and sends the default byte.
C8_NoUnsupportedFrequency ==
  \A i \in 1..Len(tr.ev) :
    ~(tr.ev[i].k = "warn"
      /\ tr.ev[i].t \in {"unsupported target freq", "unsupported manual freq"})

\* the software-desired feature bits, the vrefresh and TE frequency of the
\* mode and the idle vrefresh asked for equal the hardware-confirmed copy on
\* entry
RequestUnchanged(k) ==
  /\ k.before.feat = k.before.hw_feat
  /\ k.req.vrefresh = k.before.hw_vrefresh
  /\ k.req.idle_vrefresh = k.before.hw_idle_vrefresh
  /\ (HasTe => k.req.te_freq = k.before.hw_te_freq)

\* C9 as stated: a set_panel_feat call without enforce whose desired feature
\* bits, vrefresh, idle vrefresh and TE frequency (those of the request)
\* equal the hardware-confirmed ones has no event and changes no state.
C9_RequestUnchangedIsNoOp ==
  \A k \in Calls :
    (~k.enforce /\ RequestUnchanged(k)) =>
      (k.last < k.first /\ k.after = k.before)

\* nothing differs: the software-desired feature bits and the rates the call
\* settles on after its overrides equal the hardware-confirmed copy on entry
NothingDiffers(k) ==
  /\ k.before.feat = k.before.hw_feat
  /\ k.want.feat = k.before.hw_feat
  /\ k.want.vrefresh = k.before.hw_vrefresh
  /\ k.want.idle_vrefresh = k.before.hw_idle_vrefresh
  /\ k.want.te_freq = k.before.hw_te_freq

\* C9 amended: a set_panel_feat call without enforce for which the feature
\* bits and rates it settles on after its overrides equal the
\* hardware-confirmed ones does nothing: it has no event (no command queued,
\* no flush, no write of a hardware-confirmed field) and leaves the
\* software-desired and the hardware-confirmed state as they were.
C9_UnforcedUnchangedIsNoOp ==
  \A k \in Calls :
    (~k.enforce /\ NothingDiffers(k)) =>
      (k.last < k.first /\ k.after = k.before)

\* such a call was made
C9_Witness ==
  \E k \in Calls : ~k.enforce /\ NothingDiffers(k) /\ k.last < k.first

\* the place of a command in the order unlock, TE, early exit, frame
\* insertion / frequency, lock; 0 for a command outside these groups
Rank(e) ==
  CASE e.t = "unlock_cmd_f0" -> 1
    [] e.t \in {"te", "te_width", "te_sel", "te_page"} -> 2
    [] e.t \in {"ee", "ee_te"} -> 3
    [] e.t \in {"fi_op", "fi", "freq", "fi_step", "fi_ramp", "freq_f2",
                "freq_sel", "freq_120", "fi_page", "fi_manual"} -> 4
    [] e.t = "lock_cmd_f0" -> 5
    [] OTHER -> 0

\* the commands of the five groups come in the order of the groups
InOrder(cmds) ==
  \A i, j \in 1..Len(cmds) :
    (i < j /\ Rank(cmds[i]) /= 0 /\ Rank(cmds[j]) /= 0)
      => Rank(cmds[i]) <= Rank(cmds[j])

\* C10 as stated: the commands of a set_panel_feat call start with the
\* test-key unlock, end with the test-key lock, and come in the order
\* unlock, TE, early exit, frame insertion / frequency, lock.
C10_StrictOrder ==
  \A k \in Calls :
    LET cmds == CallCmds(k)
    IN cmds /= <<>> =>
         /\ cmds[1].t = "unlock_cmd_f0"
         /\ cmds[Len(cmds)].t = "lock_cmd_f0"
         /\ InOrder(cmds)

\* the TE setting is written again with the manual frequency: a VRR mode of
\* panel-gs-ct3a.c in normal speed
TeWithFrequency(k) ==
  ctx.variant = "gs_ct3a" /\ k.req.vrr /\ FEAT_OP_NS \in k.want.feat

\* C10 amended: in the ct3a drivers the commands of a set_panel_feat call
\* start with the test-key unlock and end with the test-key lock, which
\* occur nowhere else in the call; the ct3b drivers send no test key.  In
\* every driver the TE, early-exit and frame-insertion / frequency commands
\* come in that order, except that panel-gs-ct3a.c writes the TE setting
\* again among the frequency commands of a normal-speed VRR mode.
C10_OrderPerDriver ==
  \A k \in Calls :
    LET cmds == CallCmds(k)
        keys == {i \in 1..Len(cmds) : Rank(cmds[i]) \in {1, 5}}
    IN cmds /= <<>> =>
         /\ IF ctx.variant \in {"google_ct3a", "gs_ct3a"}
              THEN /\ cmds[1].t = "unlock_cmd_f0"
                   /\ cmds[Len(cmds)].t = "lock_cmd_f0"
                   /\ keys = {1, Len(cmds)}
              ELSE keys = {}
         /\ (~TeWithFrequency(k) => InOrder(cmds))

\* a call of a ct3b driver sent its early-exit and frequency commands with
\* no test key
C10_Witness ==
  \E k \in Calls :
    LET cmds == CallCmds(k)
    IN /\ ctx.variant \in {"google_ct3b", "gs_ct3b"}
       /\ \E i, j \in 1..Len(cmds) : i < j /\ Rank(cmds[i]) = 3 /\ Rank(cmds[j]) = 4
       /\ \A i \in 1..Len(cmds) : Rank(cmds[i]) \notin {1, 5}

(***************************************************************************)
(* Properties of get_min_idle_vrefresh (SpecIdle).                         *)
(***************************************************************************)
\* C4: get_min_idle_vrefresh returns 0, or one of 1, 10, 30 that is below the
\* vrefresh of the mode passed.
C4_MinIdleVrefreshQuantized ==
  tr.op = "get_min_idle_vrefresh" =>
    \/ tr.ret = 0
    \/ tr.ret \in {1, 10, 30} /\ tr.ret < tr.ev[1].v

\* a minimum of 30 was returned for a 60 Hz mode, and 0 for the 30 Hz mode
C4_Witness ==
  /\ tr.op = "get_min_idle_vrefresh"
  /\ ctx.min_vrefresh \in 11..30
  /\ is_auto_mode_allowed(ctx, MaxDelayMs)
  /\ \/ tr.ev[1].v = 60 /\ tr.ret = 30
     \/ tr.ev[1].v = 30 /\ tr.ret = 0

(***************************************************************************)
(* Properties of set_op_hz and set_brightness (SpecB).                     *)
(***************************************************************************)
\* C5: set_op_hz returns -EINVAL for a rate that is neither 60 nor 120 and
\* for a rate below the vrefresh of the current mode.
C5_SetOpHzRejects ==
  tr.op = "set_op_hz" =>
    LET hz == tr.ev[1].v
    IN (hz \notin {60, 120} \/ hz < drm_mode_vrefresh(ctx.current_mode))
         => tr.ret = -EINVAL

\* 60 Hz was refused in a 120 Hz mode that is not a VRR mode, and the
\* operating rate was left as it was
C5_Witness ==
  /\ tr.op = "set_op_hz" /\ tr.ev[1].v = 60 /\ tr.ret = -EINVAL
  /\ drm_mode_vrefresh(ctx.current_mode) = 120
  /\ ~is_vrr_mode(ctx.current_mode)
  /\ ctx.op_hz = 120

\* the commands a handler queued, in program order
Cmds == SelectSeq(tr.ev, LAMBDA e : e.k = "add")

\* C6: after set_brightness(0) in a mode that is not an LP mode the panel is
\* in pixel-off state (the pixel-off command was sent to it and nothing took
\* it out of that state since) and the call wrote no brightness.
C6_ZeroBrightnessIsPixelOff ==
  (tr.op = "set_brightness" /\ tr.ev[1].v = 0 /\ ~ctx.current_mode.is_lp_mode)
    => /\ dsi.pixel_off
       /\ \A i \in 1..Len(Cmds) : Cmds[i].t /= "dbv"

\* C7: a set_brightness call with a nonzero level that finds the pixel-off
\* record set sends enter_normal_mode, and sends it before the brightness.
C7_NormalModeBeforeBrightness ==
  [][(tr'.op = "set_brightness" /\ ctx.is_pixel_off /\ tr'.ev[1].v /= 0)
       => LET cmds == SelectSeq(tr'.ev, LAMBDA e : e.k = "add")
          IN /\ cmds /= <<>>
             /\ cmds[1].t = "enter_normal_mode"
             /\ \A i \in 2..Len(cmds) : cmds[i].t /= "enter_normal_mode"]_vars

\* a nonzero level found the panel in pixel-off state: enter_normal_mode,
\* then the brightness, and the panel has left the pixel-off state
C7_Witness ==
  /\ tr.op = "set_brightness" /\ tr.ev[1].v /= 0 /\ tr.ev[2].v = 1
  /\ Len(Cmds) = 2
  /\ Cmds[1].t = "enter_normal_mode" /\ Cmds[2].t = "dbv"
  /\ ~dsi.pixel_off /\ ~ctx.is_pixel_off

(***************************************************************************)
(* Properties of change_frequency, set_self_refresh, update_idle_state,    *)
(* set_lp_mode / set_nolp_mode and set_op_hz (Spec).                       *)
(***************************************************************************)
\* mode_set ran change_frequency for the 120 Hz mode with idle on inactivity,
\* in high speed, with min_vrefresh 10 and auto mode allowed
ChangedTo120Idle10 ==
  /\ tr.op = "mode_set" /\ Len(tr.calls) = 1
  /\ ctx.variant \in {"google_ct3a", "google_ct3b"}
  /\ drm_mode_vrefresh(ctx.current_mode) = 120
  /\ ctx.current_mode.idle_mode = "ON_INACTIVITY"
  /\ ctx.op_hz \in {0, 120}
  /\ ctx.min_vrefresh = 10
  /\ ctx.idle_delay_ms = 0 /\ is_auto_mode_allowed(ctx, 0)

C12_SelfRefreshReturnsChange ==
  tr.op = "set_self_refresh" => (tr.ret = 1 <=> Len(tr.calls) >= 1)

\* true was returned in a mode with idle on self refresh, and the update
\* rewrote the panel
C12_Witness ==
  /\ tr.op = "set_self_refresh" /\ tr.ret = 1
  /\ ctx.current_mode.idle_mode = "ON_SELF_REFRESH"
  /\ Len(tr.calls) = 1 /\ CallCmds(tr.calls[1]) /= <<>>

SelfRefreshIdle(c, on) ==
  IF on THEN ct3a_get_min_idle_vrefresh(c, c.current_mode, 0) ELSE 0

\* C13: in a mode with idle on self refresh (not a low-power mode),
\* set_self_refresh(enable) calls update_refresh_mode with the recomputed
\* idle refresh rate (0 when enable is false) exactly when that rate
\* differs from panel_idle_vrefresh; when they are equal it sends no
\* command and leaves the panel state as it was.
C13_SelfRefreshSkipsWhenUnchanged ==
  [][(/\ tr'.op = "set_self_refresh"
      /\ ctx.current_mode.idle_mode = "ON_SELF_REFRESH"
      /\ ~ctx.current_mode.is_lp_mode
      /\ ctx.idle_delay_ms = 0)
     => LET idle == SelfRefreshIdle(ctx, tr'.ev[1] = Ev("arg", "enable", 1))
        IN /\ (Len(tr'.calls) >= 1) <=> (idle /= ctx.panel_idle_vrefresh)
           /\ Len(tr'.calls) >= 1 => tr'.calls[1].req.idle_vrefresh = idle
           /\ idle = ctx.panel_idle_vrefresh
                => tr'.bus = <<>> /\ ctx' = ctx /\ dsi' = dsi]_vars

\* self refresh was enabled again while the panel was already notified of
\* the same non-zero idle refresh rate: the call was skipped
C13_Witness ==
  /\ tr.op = "set_self_refresh" /\ tr.ev[1] = Ev("arg", "enable", 1)
  /\ ctx.current_mode.idle_mode = "ON_SELF_REFRESH"
  /\ ~ctx.current_mode.is_lp_mode
  /\ ctx.panel_idle_vrefresh /= 0
  /\ ctx.panel_idle_vrefresh = SelfRefreshIdle(ctx, TRUE)
  /\ tr.calls = <<>> /\ tr.bus = <<>> /\ tr.ret = 0

\* the commands update_idle_state queued (commit_done of panel-gs-ct3b.c
\* may add the display-on command of its own afterwards)
IdleStateCmds(ev) ==
  SelectSeq(ev, LAMBDA e : e.k = "add" /\ e.t /= "display_on")

EarlyExitCmds(ev) ==
  \/ ev = <<Ev("add", "unlock_cmd_f0", 0), Ev("add", "ltps_update", 0),
            Ev("add", "lock_cmd_f0", 0)>>
  \/ ev = <<Ev("add", "ee_te", 1)>>

\* C14: on commit_done in a mode that is not a low-power mode, with
\* FEAT_FRAME_AUTO set and at least EARLY_EXIT_THRESHOLD_US since the last
\* commit, update_idle_state either sends only the early-exit command and
\* keeps the auto mode (idle_delay_ms is 0 and force_changeable_te is set)
\* or calls update_refresh_mode with idle vrefresh 0; with FEAT_FRAME_AUTO
\* clear or less time elapsed it sends no command.
C14_UpdateIdleStateTwoPaths ==
  [][(tr'.op = "commit_done" /\ ~ctx.current_mode.is_lp_mode)
     => LET delta_us == tr'.ev[1].v
            due == FEAT_FRAME_AUTO \in ctx.feat /\ delta_us >= EARLY_EXIT_THRESHOLD_US
            early == ctx.idle_delay_ms = 0 /\ ctx.force_changeable_te
        IN /\ (due /\ early) =>
                /\ EarlyExitCmds(IdleStateCmds(tr'.ev)) /\ tr'.calls = <<>>
                /\ ctx'.feat = ctx.feat
                /\ ctx'.auto_mode_vrefresh = ctx.auto_mode_vrefresh
           /\ (due /\ ~early) =>
                /\ Len(tr'.calls) = 1 /\ tr'.calls[1].req.idle_vrefresh = 0
                /\ ctx'.auto_mode_vrefresh = 0 /\ ctx'.panel_idle_vrefresh = 0
                /\ FEAT_FRAME_AUTO \notin ctx'.feat
           /\ ~due => IdleStateCmds(tr'.ev) = <<>> /\ tr'.calls = <<>>]_vars

\* the auto mode was turned off by a commit that came late, and the
\* panel was rewritten
C14_Witness ==
  /\ tr.op = "commit_done" /\ tr.ev[1] = Ev("arg", "delta_us", 20000)
  /\ ~ctx.current_mode.is_lp_mode
  /\ Len(tr.calls) = 1 /\ FEAT_FRAME_AUTO \in tr.calls[1].before.hw_feat
  /\ tr.calls[1].req.idle_vrefresh = 0 /\ CallCmds(tr.calls[1]) /= <<>>
  /\ ctx.auto_mode_vrefresh = 0 /\ FEAT_FRAME_AUTO \notin ctx.hw_feat

\* C15: a set_lp_mode or set_nolp_mode call that sends commands sleeps
\* DELAY_30HZ_ONE_FRAME after the flush of its command sequence, before it
\* queues another command or returns.
C15_SettleDelayAfterLpSwitch ==
  (tr.op \in {"set_lp_mode", "set_nolp_mode"}
   /\ \E i \in 1..Len(tr.ev) : tr.ev[i].k = "add")
  => \E i \in 1..Len(tr.ev) :
       /\ tr.ev[i] = Ev("sleep", "", DELAY_30HZ_ONE_FRAME)
       /\ \E j \in 1..(i - 1) :
            /\ tr.ev[j].k = "flush"
            /\ \A n \in (j + 1)..(i - 1) : tr.ev[n].k /= "add"

\* the call went through set_panel_feat or queued a command
Rewritten ==
  tr.calls /= <<>> \/ \E i \in 1..Len(tr.ev) : tr.ev[i].k = "add"

\* C16: a set_op_hz call that returns 0 stores hz, has FEAT_OP_NS set
\* exactly when hz is 60, and rewrites the panel exactly when the panel is
\* active; on an inactive panel it queues no command.
C16_SetOpHzRewritesIffActive ==
  (tr.op = "set_op_hz" /\ tr.ret = 0)
  => /\ ctx.op_hz = tr.ev[1].v
     /\ (FEAT_OP_NS \in ctx.feat) <=> (tr.ev[1].v = 60)
     /\ Rewritten <=> is_panel_active(ctx)

\* ct3a_wait_one_vblank ran: a vblank wait, or the sleep of one 120 Hz
\* frame where no vblank can be waited for
IsVblankWait(e) == e = Ev("vblank", "", 0) \/ e = Ev("sleep", "", 8350)

\* C17: a set_op_hz call of the ct3a drivers that returns 0 and takes
\* op_hz from 60 to 120 ends with ct3a_wait_one_vblank, after the
\* set_panel_feat call that an active panel gets.
C17_WaitVblankAfterNsToHs ==
  [][(/\ tr'.op = "set_op_hz" /\ tr'.ret = 0
      /\ ctx.variant \in {"google_ct3a", "gs_ct3a"}
      /\ ctx.op_hz = 60 /\ tr'.ev[1].v = 120)
     => LET n == Len(tr'.ev)
        IN /\ IsVblankWait(tr'.ev[n])
           /\ \A i \in 1..(n - 1) : ~IsVblankWait(tr'.ev[i])
           /\ is_panel_active(ctx) => Len(tr'.calls) = 1
           /\ \A c \in 1..Len(tr'.calls) : tr'.calls[c].last < n]_vars

\* the panel was switched from NS to HS by commands, then the vblank
\* was waited for
C17_Witness ==
  /\ tr.op = "set_op_hz" /\ tr.ret = 0 /\ tr.ev[1].v = 120
  /\ Len(tr.calls) = 1 /\ FEAT_OP_NS \in tr.calls[1].before.hw_feat
  /\ FEAT_OP_NS \notin ctx.hw_feat /\ CallCmds(tr.calls[1]) /= <<>>
  /\ tr.ev[Len(tr.ev)] = Ev("vblank", "", 0)

\* C18: between operations the command buffer is empty: every command a
\* handler queued was flushed before the handler returned.
C18_BufferEmptyAfterOperation == dsi.buf = <<>>

\* the default branch was taken
UnknownRev(t) == \E i \in 1..Len(t.ev) : t.ev[i].k = "warn"

\* the rev a decoder passed to the framework
PassedRev(t) == (CHOOSE e \in {t.ev[i] : i \in 1..Len(t.ev)} : e.k = "call").v

\* C19: get_panel_rev gives every id a revision that depends on the
\* revision code of the id only; two recognised codes that differ give
\* revisions that differ, and a code that is not recognised gives the
\* latest revision, with a warning.  The decoder of panel-gs-ct3c.c passes
\* a rev to the framework: that rev is a one-to-one function of the code.
C19_PanelRevDecoding ==
  tr.op = "get_panel_rev"
  => LET id == tr.ev[1].v
     IN \A id2 \in PanelIds :
          LET m2 == get_panel_rev(Begin("get_panel_rev"), id2)
              same == panel_rev_code(id2) = panel_rev_code(id)
          IN IF ctx.variant = "gs_ct3c"
               THEN /\ PassedRev(tr) \in 0..255
                    /\ same <=> (PassedRev(m2.tr) = PassedRev(tr))
               ELSE /\ \E i \in 1..Len(PanelRevOrder) : PanelRevOrder[i] = ctx.panel_rev
                    /\ UnknownRev(tr) <=> (ctx.panel_rev = "LATEST")
                    /\ same => m2.ctx.panel_rev = ctx.panel_rev
                    /\ (~same /\ ~UnknownRev(tr) /\ ~UnknownRev(m2.tr))
                         => m2.ctx.panel_rev /= ctx.panel_rev

\* an id with the other bytes set was decoded to EVT1_2 by the switch of
\* panel-google-ct3a.c
C19_Witness ==
  /\ tr.op = "get_panel_rev" /\ ctx.variant = "google_ct3a"
  /\ tr.ev[1].v > 65535 /\ panel_rev_code(tr.ev[1].v) = 15
  /\ ctx.panel_rev = "EVT1_2" /\ ~UnknownRev(tr)

\* what the reads of register 0xBE of the last handler returned, in order
BehReads ==
  LET r == SelectSeq(tr.ev, LAMBDA e : e.k = "read")
  IN [i \in 1..Len(r) |-> r[i].v]

\* the sleep and wake cycles of the last handler
SleepCycles ==
  Len(SelectSeq(tr.ev, LAMBDA e : e = Ev("add", "enter_sleep", 0)))

\* C20: an enable of panel-gs-ct3d.c whose first read of register 0xBE
\* fails runs between one and CT3D_READ_BEH_RETRY_COUNT sleep and wake
\* cycles, each followed by one read; no cycle follows a read that
\* matched, and fewer cycles than the count are run only when the last
\* read matched.  The enable then sends display on and returns 0.  A
\* first read that matches is followed by no cycle.
C20_ReadBehRetryBounded ==
  (tr.op = "enable" /\ ctx.variant = "gs_ct3d")
  => LET n == Len(BehReads)
     IN /\ n = SleepCycles + 1
        /\ SleepCycles <= CT3D_READ_BEH_RETRY_COUNT
        /\ BehReads[1] /= 0 => SleepCycles >= 1
        /\ \A i \in 1..(n - 1) : BehReads[i] /= 0
        /\ BehReads[n] /= 0 => SleepCycles = CT3D_READ_BEH_RETRY_COUNT
        /\ tr.ret = 0 /\ ctx.enabled
        /\ tr.bus[Len(tr.bus)] = Ev("add", "display_on", 0)

\* the first two reads failed, the read after the second cycle matched
C20_Witness ==
  /\ tr.op = "enable" /\ ctx.variant = "gs_ct3d"
  /\ BehReads = <<-EAGAIN, -EIO, 0>> /\ SleepCycles = 2
  /\ tr.ret = 0 /\ ctx.enabled

\* C21: the thermal callback reads the backlight state only while it holds
\* bl_state_lock, it holds the mutex on no return path (the -EINVAL returns
\* included), and a DRM entry point of the driver leaves the mutex alone.
C21_GetTempLocking ==
  [][/\ (ctx.tz.pc = "read" => ctx.bl_state_lock = "thermal")
     /\ (ctx'.tz.temp # ctx.tz.temp /\ ctx'.tz.temp # -1
           => ctx.bl_state_lock = "thermal")
     /\ (ctx'.tz.pc = "idle" => ctx'.bl_state_lock # "thermal")
     /\ (tr' # tr => ctx'.bl_state_lock = ctx.bl_state_lock)]_vars

\* the callback has read a lit backlight and returned 0 with the mutex free
C21_Witness ==
  /\ ctx.tz.pc = "idle" /\ ctx.tz.ret = 0 /\ ctx.tz.temp = MaxBrightness
  /\ ctx.bl_state_lock = "free" /\ tr.op = "set_dimming_on"

Slept(t) == \E i \in 1..Len(t.ev) : t.ev[i] = Ev("sleep", "", 8350)

Sent(t) == {i \in 1..Len(t.ev) : t.ev[i].k \in {"add", "flush", "hw"}}

\* C23: a set_op_hz call that returns -EINVAL leaves op_hz, the feature
\* bits, the hardware-confirmed state and every other field as they were,
\* queues and sends no command and leaves the command buffer as it was.
C23_RefusedSetOpHzChangesNothing ==
  [][tr'.op = "set_op_hz" /\ tr'.ret = -EINVAL
       => ctx' = ctx /\ dsi' = dsi /\ Sent(tr') = {} /\ tr'.bus = <<>>]_vars

\* an active panel has refused a supported rate below the mode's refresh rate
C23_Witness ==
  /\ tr.op = "set_op_hz" /\ tr.ret = -EINVAL /\ ctx.enabled
  /\ tr.ev[1] = Ev("arg", "hz", 60)
  /\ drm_mode_vrefresh(ctx.current_mode) = 120

\* C24: in every reachable state of the ct3a drivers the refresh rate last
\* programmed into the panel is at most the operating rate op_hz.
C24_HwVrefreshWithinOpHz ==
  ctx.variant \in {"google_ct3a", "gs_ct3a"} => ctx.hw_vrefresh <= ctx.op_hz

\* the last handler was set_self_refresh(enable = on) in a mode whose idle
\* mode is idle_mode, outside low power
SelfRefreshCall(on, idle_mode) ==
  /\ tr'.op = "set_self_refresh"
  /\ tr'.ev[1] = Ev("arg", "enable", IF on THEN 1 ELSE 0)
  /\ ~ctx.current_mode.is_lp_mode
  /\ ctx.current_mode.idle_mode = idle_mode

\* C25: in an on-self-refresh mode of the legacy ct3a and ct3b drivers,
\* when set_self_refresh(false) has returned, FEAT_FRAME_AUTO is clear and
\* the auto-mode idle refresh rate is 0, in the software state and in the
\* hardware-confirmed state.
C25_SelfRefreshExitTurnsAutoOff ==
  [][ctx.variant \in {"google_ct3a", "google_ct3b"}
       /\ SelfRefreshCall(FALSE, "ON_SELF_REFRESH")
       => /\ FEAT_FRAME_AUTO \notin ctx'.feat
          /\ FEAT_FRAME_AUTO \notin ctx'.hw_feat
          /\ ctx'.auto_mode_vrefresh = 0
          /\ ctx'.hw_idle_vrefresh = 0
          /\ ctx'.panel_idle_vrefresh = 0]_vars

\* get_min_idle_vrefresh as the next set_self_refresh call computes it
NextMinIdle == ct3a_get_min_idle_vrefresh(ctx, ctx.current_mode, 0)

\* the last handler was a commit_done whose update_idle_state switched
\* auto mode off
AutoDisabledByIdleState ==
  /\ tr.op = "commit_done" /\ Len(tr.calls) > 0
  /\ FEAT_FRAME_AUTO \notin ctx.feat /\ ctx.auto_mode_vrefresh = 0

\* C26: in an on-inactivity mode of the legacy drivers, the set_self_refresh
\* call that follows an update_idle_state that disabled auto mode switches
\* auto frame insertion back on at get_min_idle_vrefresh's rate when that
\* rate is not 0, in the software state and in the panel.
C26_SelfRefreshReenablesAuto ==
  [][/\ ctx.variant \in {"google_ct3a", "google_ct3b"}
     /\ AutoDisabledByIdleState
     /\ ctx.current_mode.idle_mode = "ON_INACTIVITY"
     /\ ~ctx.current_mode.is_lp_mode
     /\ tr'.op = "set_self_refresh"
     /\ NextMinIdle # 0
     => /\ tr'.ret = 1
        /\ FEAT_FRAME_AUTO \in ctx'.feat
        /\ ctx'.auto_mode_vrefresh = NextMinIdle
        /\ FEAT_FRAME_AUTO \in ctx'.hw_feat
        /\ ctx'.hw_idle_vrefresh = NextMinIdle]_vars

\* set_self_refresh has switched auto mode back on after a commit_done
\* had switched it off
C26_Witness ==
  /\ ctx.variant = "google_ct3b" /\ tr.op = "set_self_refresh" /\ tr.ret = 1
  /\ ctx.current_mode.idle_mode = "ON_INACTIVITY"
  /\ FEAT_FRAME_AUTO \in ctx.feat /\ ctx.auto_mode_vrefresh # 0
  /\ Len(tr.calls) > 0 /\ FEAT_FRAME_AUTO \notin tr.calls[1].before.hw_feat

\* C27: between operations of the ct3a drivers, FEAT_OP_NS is set in the
\* software feature bits exactly when op_hz is 60.
C27_OpNsIffOpHz60 ==
  ctx.variant \in {"google_ct3a", "gs_ct3a"}
    => (FEAT_OP_NS \in ctx.feat <=> ctx.op_hz = 60)

\* C28: between operations of the legacy ct3a and ct3b drivers,
\* FEAT_FRAME_AUTO is set in the software feature bits exactly when
\* auto_mode_vrefresh is not 0.
C28_FrameAutoIffAutoVrefresh ==
  ctx.variant \in {"google_ct3a", "google_ct3b"}
    => (FEAT_FRAME_AUTO \in ctx.feat <=> ctx.auto_mode_vrefresh # 0)

Unlocks(t) == {i \in 1..Len(t.ev) : t.ev[i] = Ev("add", "unlock_cmd_f0", 0)}

Locks(t) == {i \in 1..Len(t.ev) : t.ev[i] = Ev("add", "lock_cmd_f0", 0)}

Flushes(t) == {i \in 1..Len(t.ev) : t.ev[i].k = "flush"}

\* C29: every unlock_cmd_f0 an operation queues is followed, within the
\* same operation, by a lock_cmd_f0 with no other unlock in between, and
\* that lock is flushed before the operation returns.
C29_UnlockMatchedByLock ==
  \A i \in Unlocks(tr) :
    \E j \in Locks(tr) :
      /\ i < j
      /\ \A k \in Unlocks(tr) : ~(i < k /\ k < j)
      /\ \E f \in Flushes(tr) : j < f

\* the last handler logged the failure of the retries
BehFailureReported ==
  \E i \in 1..Len(tr.ev) : tr.ev[i].k = "warn" /\ tr.ev[i].t = "Failed to read BEh"

\* the last handler logged a success after v retries
BehSuccessReported(v) ==
  \E i \in 1..Len(tr.ev) :
    tr.ev[i] = Ev("info", "Success to read BEh after retry", v)

\* C30: an enable of panel-gs-ct3d.c that took the retry path reports a
\* failure exactly when every retry read failed; when a retry read matched,
\* the last permitted one included, it reports success with the number of
\* retries used.
C30_ReadFailureReportedIffAllFailed ==
  (tr.op = "enable" /\ ctx.variant = "gs_ct3d" /\ SleepCycles >= 1)
  => LET n == Len(BehReads)
     IN /\ BehFailureReported <=> BehReads[n] /= 0
        /\ BehReads[n] = 0 => BehSuccessReported(SleepCycles)

====
